---- MODULE Spec2Model ----
(***************************************************************************)
(* A model of the wormtable storage layer bundled with BrowseVCF           *)
(* (src/web/wormtable/tables.py), of the wtadmin administration program    *)
(* (src/web/wormtable/wtadmin.py) and of the vcf2wt destination check      *)
(* (src/web/wormtable/vcf2wt.py).                                          *)
(*                                                                         *)
(* The home directory is the variable disk; the Table facade object used   *)
(* by the program is T, the Index facade object is I.  The low-level       *)
(* objects of the _wormtable extension module (row buffer, row store,      *)
(* index builder, row iterators) are not part of the Python sources; the   *)
(* operators whose names start with LL model them from their callers and   *)
(* from the written specification.                                         *)
(***************************************************************************)
EXTENDS Integers, Sequences, FiniteSets, TLC

VARIABLES
    disk,   \* the home directory: path -> file
    T,      \* the Table object of the program
    pc,     \* where the program is inside a multi-step handler
    last,   \* the last API call (of the program, or of a reader in another
            \* process) and its outcome
    I,      \* the Index object of the program
    gen,    \* whether a generator returned by Table.indexes() awaits its first step
    adm,    \* where a run of wtadmin is, and how it has gone
    meta,   \* a metadata document on its way from one Table object, through
            \* the file, to a new Table object
    procs,  \* the processes that build indexes side by side
    dir,    \* the file names in a home directory whose indexes are listed
    web     \* the working directory of the web front end: its result files
            \* and the last response of filter.py

vars == <<disk, T, pc, last, I, gen, adm, meta, procs, dir, web>>

\* What the operations on the Table alone leave as it is.
others == <<I, gen, adm, meta, procs, dir, web>>

\* What the operations of the one program leave as it is.
aux == <<meta, procs, dir, web>>

(***************************** bounds **************************************)
\* The largest number of rows held in the home directory (committed to the
\* build files plus published in the permanent files).
MaxRows == 2
\* Column values are 1..MaxVal.
MaxVal == 1

(*************************** value domain **********************************)
\* Python's None: a missing value.
None == -1
\* An encoded value that the column's codec rejects.
BAD == -2
\* The number that stands for the first string: above every number that a
\* column or a row id holds.
StrBase == MaxRows + MaxVal + 3
Values == 1..MaxVal
\* The names of the data columns a caller adds after the id column, in the
\* order in which it adds them.
DataColOrder == <<"a", "b">>
DataColNames == {DataColOrder[k] : k \in 1..Len(DataColOrder)}

WT_READ == "WT_READ"
WT_WRITE == "WT_WRITE"
NoMode == "None"

PRIMARY_KEY_NAME == "row_id"
DB_NAME == "table"
DB_SUFFIX == ".db"
DATA_SUFFIX == ".dat"
\* os.getpid() of the program.
Pid == "1"

(***************************** paths ***************************************)
get_db_path(db_name) == db_name \o DB_SUFFIX

get_db_build_path(db_name) == "_build_" \o Pid \o "_" \o db_name \o DB_SUFFIX

get_metadata_path(db_name) == db_name \o ".xml"

get_data_path == DB_NAME \o DATA_SUFFIX

get_data_build_path == "_build_" \o Pid \o "_" \o DB_NAME \o DATA_SUFFIX

TablePaths ==
    {get_metadata_path(DB_NAME), get_db_path(DB_NAME), get_data_path,
     get_db_build_path(DB_NAME), get_data_build_path}

\* The names a caller gives to indexes.
IndexNames == {"x"}

DB_PREFIX == "index_"

\* Index.__init__ if it gave every index the same db name.
index_db_name_OneForAll(name) == DB_PREFIX \o "y"

index_db_name(name) == DB_PREFIX \o name

IndexPaths ==
    UNION {{get_metadata_path(index_db_name(nm)), get_db_path(index_db_name(nm)),
            get_db_build_path(index_db_name(nm))} : nm \in IndexNames}

\* The processes that build indexes side by side, each with os.getpid() and
\* the name of the index it builds.
BuilderPids == {"2", "3"}
BuilderName(pid) == IF pid = "2" THEN "y" ELSE "z"

\* get_db_build_path in the process pid.
get_db_build_path_in(pid, db_name) == "_build_" \o pid \o "_" \o db_name \o DB_SUFFIX

\* The files of the index that the process pid builds.
BuilderPaths(pid) ==
    {get_metadata_path(index_db_name(BuilderName(pid))),
     get_db_path(index_db_name(BuilderName(pid))),
     get_db_build_path_in(pid, index_db_name(BuilderName(pid)))}

Paths == TablePaths \cup IndexPaths \cup UNION {BuilderPaths(pid) : pid \in BuilderPids}

\* A file: an absent file has exists = FALSE and empty contents.  A metadata
\* document holds columns and num_rows, a db file holds num_rows directory
\* entries, a data file holds rows.
NoFile == [exists |-> FALSE, columns |-> <<>>, num_rows |-> 0, rows |-> <<>>]

EmptyStore == [exists |-> TRUE, columns |-> <<>>, num_rows |-> 0, rows |-> <<>>]

\* shutil.move(old, new) inside one directory: a rename.
Move(d, old, new) == [d EXCEPT ![new] = d[old], ![old] = NoFile]

(************************** sequences **************************************)
RECURSIVE Fill(_, _)
Fill(n, v) == IF n = 0 THEN <<>> ELSE Append(Fill(n - 1, v), v)

(*********************** the low-level Table *******************************)
\* _wormtable.Table(db_file, data_file, ll_cols, cache_size): the constructor
\* needs a column list that starts with the primary key column.
LLTableCreateOk(cols) == Len(cols) >= 1 /\ cols[1] = PRIMARY_KEY_NAME

\* llo.open(WT_READ) needs the db file and the data file.
LLTableOpenReadOk(d, db_file, data_file) == d[db_file].exists /\ d[data_file].exists

\* llo.open(WT_WRITE) creates both files, empty.
LLTableOpenWrite(d, db_file, data_file) ==
    [d EXCEPT ![db_file] = EmptyStore, ![data_file] = EmptyStore]

\* A cleared row buffer: every column missing.
LLClearRow(cols) == Fill(Len(cols), None)

\* t.insert_elements(j, v) / t.insert_encoded_elements(j, v), j counted from 0:
\* write-only, the column must exist and the value must fit the column.
LLInsertOk(t, j, v) ==
    /\ t.ll
    /\ t.open_mode = WT_WRITE
    /\ j < Len(t.columns)
    /\ v # BAD

\* The value lands in the row buffer; nothing else changes.
LLInsert(row, j, v) == [row EXCEPT ![j + 1] = v]

\* t.commit_row() is write-only.
LLCommitOk(t) == t.ll /\ t.open_mode = WT_WRITE

\* The row that commit_row stores: the buffer with the next row id in column 0.
LLCommittedRow(row, n) == [row EXCEPT ![1] = n]

\* commit_row appends the row to the data file, adds its directory entry to
\* the db file, and clears the row buffer.
LLCommitRow(d, db_file, data_file, row) ==
    [d EXCEPT ![data_file].rows = Append(@, LLCommittedRow(row, Len(@))),
              ![db_file].num_rows = @ + 1]

\* t.num_rows / t.get_num_rows(): the number of directory entries.
LLNumRows(d, db_file) == d[db_file].num_rows

\* t.get_row(k) for 0 <= k < num_rows.
LLGetRow(d, data_file, k) == d[data_file].rows[k + 1]

(************************** the Table object *******************************)
\* Table.__init__ / Database.__init__
NewTable ==
    [ll |-> FALSE, open_mode |-> NoMode, build |-> FALSE,
     columns |-> <<>>, column_name_map |-> {}, num_rows |-> 0, row |-> <<>>]

is_open(t) == t.ll

get_open_mode(t) == t.open_mode

\* Database.exists: the metadata file and the db file.
exists(d, db_name) ==
    LET p1 == d[get_metadata_path(db_name)].exists
        p2 == d[get_db_path(db_name)].exists
    IN p1 /\ p2

\* Database.verify_open(mode=None)
verify_open(t) == is_open(t)

\* verify_open(mode) if it looked only at whether the database is open.
verify_open_mode_AnyMode(t, mode) == is_open(t)

\* Database.verify_open(mode)
verify_open_mode(t, mode) == ~(t.open_mode # mode \/ ~is_open(t))

\* The db file if the build prefix were left out when opening for writing.
ll_db_file_NoBuildPrefix(build) == get_db_path(DB_NAME)

\* The files the low-level table of t works on (Table._create_ll_object).
ll_db_file(build) ==
    IF build THEN get_db_build_path(DB_NAME) ELSE get_db_path(DB_NAME)

\* The data file if the build prefix were left out when opening for writing.
ll_data_file_NoBuildPrefix(build) == get_data_path

ll_data_file(build) == IF build THEN get_data_build_path ELSE get_data_path

\* Table._parse_schema_xml: the document's columns are appended to the
\* column list and entered in the name map.
RECURSIVE parse_schema_xml(_, _)
parse_schema_xml(t, xml_columns) ==
    IF xml_columns = <<>> THEN t
    ELSE LET col == Head(xml_columns)
             m == {e \in t.column_name_map : e[1] # col}
                    \cup {<<col, Len(t.columns)>>}
         IN parse_schema_xml(
                [t EXCEPT !.column_name_map = m,
                          !.columns = Append(@, col)],
                Tail(xml_columns))

\* Table._parse_stats_xml
parse_stats_xml(t, doc) == [t EXCEPT !.num_rows = doc.num_rows]

\* Table.set_metadata on the document stored at table.xml.
set_metadata(t, doc) == parse_stats_xml(parse_schema_xml(t, doc.columns), doc)

\* Table.get_metadata: the document that write_metadata stores.
get_metadata(t) ==
    [exists |-> TRUE, columns |-> t.columns, num_rows |-> t.num_rows,
     rows |-> <<>>]

\* __update_stats if it kept the count that the Table object holds.
update_stats_KeepCount(t, d) == t

\* Table.__update_stats
update_stats(t, d) == [t EXCEPT !.num_rows = LLNumRows(d, ll_db_file(t.build))]

\* The finally clauses of Database.close and Table.close.
close_finally(t) ==
    [t EXCEPT !.open_mode = NoMode, !.ll = FALSE, !.build = FALSE,
              !.row = <<>>, !.num_rows = 0, !.columns = <<>>,
              !.column_name_map = {}]

\* The outcome of an API call: its name, how it ended, its argument, the
\* number it returned, the rows it returned, and the row ids it asked the
\* low-level row store for.
ResultF(op, res, arg, n, out, fetch) ==
    [op |-> op, res |-> res, arg |-> arg, n |-> n, out |-> out, fetch |-> fetch,
     cols |-> <<>>]

Result(op, res, arg, n, out) == ResultF(op, res, arg, n, out, <<>>)

NoResult == Result("none", "ok", <<>>, 0, <<>>)

\* Index.__init__
NewIndex ==
    [ll |-> FALSE, open_mode |-> NoMode, name |-> "", key_columns |-> <<>>,
     bin_widths |-> <<>>]

\* No run of wtadmin is under way.
NoRun == [pc |-> "none", err |-> ""]

\* The program is between two calls.
Idle == pc = "idle" /\ adm.pc = "none"

\* No metadata document is under way.
NoMeta == [pc |-> "none"]

\* No process builds an index side by side with another.
NoProcs == <<>>

\* No home directory is listed by name.
NoDir == {}

\* No request has reached the web front end.
NoWeb == [pc |-> "none"]

Init ==
    /\ disk = [p \in Paths |-> NoFile]
    /\ T = NewTable
    /\ pc = "idle"
    /\ last = NoResult
    /\ I = NewIndex
    /\ gen = FALSE
    /\ adm = NoRun
    /\ meta = NoMeta
    /\ procs = NoProcs
    /\ dir = NoDir
    /\ web = NoWeb

(*************************** Table operations ******************************)
\* Table.add_id_column and Table.add_column.  The callers modelled add the id
\* column first and then the data columns in the order of DataColOrder.
AddColumn(name) ==
    /\ Idle
    /\ IF T.columns = <<>> THEN name = PRIMARY_KEY_NAME
       ELSE /\ Len(T.columns) <= Len(DataColOrder)
            /\ name = DataColOrder[Len(T.columns)]
    /\ IF is_open(T)
       THEN /\ last' = Result("add_column", "ValueError", <<>>, 0, <<>>)
            /\ UNCHANGED T
       ELSE /\ T' = [T EXCEPT !.columns = Append(@, name)]
            /\ last' = Result("add_column", "ok", <<>>, 0, <<>>)
    /\ UNCHANGED <<disk, pc>>
    /\ UNCHANGED others

\* Database.open("w") on a Table that is not open.
OpenWrite ==
    /\ Idle
    /\ ~is_open(T)
    /\ LET t0 == [T EXCEPT !.open_mode = NoMode, !.ll = FALSE]
       IN IF LLTableCreateOk(t0.columns)
          THEN /\ disk' = LLTableOpenWrite(disk, ll_db_file(TRUE), ll_data_file(TRUE))
               /\ T' = [t0 EXCEPT !.ll = TRUE, !.open_mode = WT_WRITE,
                                  !.build = TRUE, !.row = LLClearRow(t0.columns)]
               /\ last' = Result("open_w", "ok", <<>>, 0, <<>>)
          ELSE /\ T' = t0
               /\ last' = Result("open_w", "error", <<>>, 0, <<>>)
               /\ UNCHANGED disk
    /\ UNCHANGED pc
    /\ UNCHANGED others

\* Database.open("r") on a Table that is not open and has no columns yet.
OpenRead ==
    /\ Idle
    /\ ~is_open(T)
    /\ T.columns = <<>>
    /\ LET t0 == [T EXCEPT !.open_mode = NoMode, !.ll = FALSE]
           xml == disk[get_metadata_path(DB_NAME)]
           t1 == set_metadata(t0, xml)
       IN IF ~xml.exists
          THEN /\ T' = t0
               /\ last' = Result("open_r", "IOError", <<>>, 0, <<>>)
          ELSE IF LLTableCreateOk(t1.columns)
                  /\ LLTableOpenReadOk(disk, ll_db_file(FALSE), ll_data_file(FALSE))
               THEN /\ T' = [t1 EXCEPT !.ll = TRUE, !.open_mode = WT_READ]
                    /\ last' = Result("open_r", "ok", <<>>, 0, <<>>)
               ELSE /\ T' = t1
                    /\ last' = Result("open_r", "error", <<>>, 0, <<>>)
    /\ UNCHANGED <<disk, pc>>
    /\ UNCHANGED others

\* Database.read_metadata called on a Table that is not open and has no
\* columns yet, as VCFWriter.__init__ does before it opens for writing.
ReadMetadata ==
    /\ Idle
    /\ ~is_open(T)
    /\ T.columns = <<>>
    /\ LET xml == disk[get_metadata_path(DB_NAME)]
       IN IF xml.exists
          THEN /\ T' = set_metadata(T, xml)
               /\ last' = Result("read_metadata", "ok", <<>>, 0, <<>>)
          ELSE /\ last' = Result("read_metadata", "IOError", <<>>, 0, <<>>)
               /\ UNCHANGED T
    /\ UNCHANGED <<disk, pc>>
    /\ UNCHANGED others

\* The rows a caller passes to append: at most one value per column, the id
\* column left to the table, trailing columns possibly elided.
NumCols == 1 + Cardinality(DataColNames)

RowsOver(vals) ==
    UNION {[1..n -> vals] : n \in 0..NumCols}

InputRows == {r \in RowsOver(Values \cup {None}) : Len(r) >= 1 => r[1] = None}

EncodedInputRows ==
    {r \in RowsOver(Values \cup {None, BAD}) : Len(r) >= 1 => r[1] = None}

\* The rows in the home directory, published or under construction.
RowsHeld == Len(disk[get_data_path].rows) + Len(disk[get_data_build_path].rows)

\* The loop of Table.append if it handed every value, None included, to
\* insert_elements.
RECURSIVE insert_all_InsertNone(_, _, _)
insert_all_InsertNone(t, row, j) ==
    IF j >= Len(row) THEN [ok |-> TRUE, t |-> t]
    ELSE IF LLInsertOk(t, j, row[j + 1])
         THEN insert_all_InsertNone([t EXCEPT !.row = LLInsert(@, j, row[j + 1])],
                                    row, j + 1)
         ELSE [ok |-> FALSE, t |-> t]

\* The loop of Table.append / Table.append_encoded: every value that is not
\* None is inserted into the row buffer of the low-level table; the first
\* insert that raises ends the loop.
RECURSIVE insert_all(_, _, _)
insert_all(t, row, j) ==
    IF j >= Len(row) THEN [ok |-> TRUE, t |-> t]
    ELSE LET v == row[j + 1]
         IN IF v = None THEN insert_all(t, row, j + 1)
            ELSE IF LLInsertOk(t, j, v)
                 THEN insert_all([t EXCEPT !.row = LLInsert(@, j, v)], row, j + 1)
                 ELSE [ok |-> FALSE, t |-> t]

\* The end of append if the row count went up before commit_row was tried.
append_commit_CountFirst(op, row, r) ==
    IF r.ok /\ LLCommitOk(r.t)
    THEN /\ disk' = LLCommitRow(disk, ll_db_file(r.t.build),
                                ll_data_file(r.t.build), r.t.row)
         /\ T' = [r.t EXCEPT !.row = LLClearRow(r.t.columns),
                             !.num_rows = @ + 1]
         /\ last' = Result(op, "ok", row, 0, <<>>)
    ELSE /\ T' = [r.t EXCEPT !.num_rows = @ + 1]
         /\ last' = Result(op, "error", <<>>, 0, <<>>)
         /\ UNCHANGED disk

\* What follows the loop: commit_row, then the row count goes up.
append_commit(op, row, r) ==
    IF r.ok /\ LLCommitOk(r.t)
    THEN /\ disk' = LLCommitRow(disk, ll_db_file(r.t.build),
                                ll_data_file(r.t.build), r.t.row)
         /\ T' = [r.t EXCEPT !.row = LLClearRow(r.t.columns),
                             !.num_rows = @ + 1]
         /\ last' = Result(op, "ok", row, 0, <<>>)
    ELSE /\ T' = r.t
         /\ last' = Result(op, "error", <<>>, 0, <<>>)
         /\ UNCHANGED disk

\* Table.append(row)
AppendRow(row) ==
    /\ Idle
    /\ RowsHeld < MaxRows
    /\ append_commit("append", row, insert_all(T, row, 0))
    /\ UNCHANGED pc
    /\ UNCHANGED others

\* Table.append_encoded(row)
AppendEncoded(row) ==
    /\ Idle
    /\ RowsHeld < MaxRows
    /\ append_commit("append_encoded", row, insert_all(T, row, 0))
    /\ UNCHANGED pc
    /\ UNCHANGED others

\* Table.close up to and including the close of the low-level table.  A
\* table open for reading is closed in this one step; a table open for
\* writing goes on to finalise_build.
CloseBegin ==
    /\ Idle
    /\ IF ~verify_open(T)
       THEN /\ last' = Result("close", "ValueError", <<>>, 0, <<>>)
            /\ UNCHANGED <<T, pc>>
       ELSE IF get_open_mode(T) = WT_WRITE
            THEN /\ T' = update_stats(T, disk)
                 /\ pc' = "move_db"
                 /\ last' = Result("close", "running", <<>>, 0, <<>>)
            ELSE /\ T' = close_finally(T)
                 /\ last' = Result("close", "ok", <<>>, 0, <<>>)
                 /\ UNCHANGED pc
    /\ UNCHANGED disk
    /\ UNCHANGED others

\* Database.finalise_build: shutil.move(old, new) of the db file.
FinaliseMoveDb ==
    /\ pc = "move_db"
    /\ disk' = Move(disk, get_db_build_path(DB_NAME), get_db_path(DB_NAME))
    /\ pc' = "write_xml"
    /\ UNCHANGED <<T, last>>
    /\ UNCHANGED others

\* Database.finalise_build: write_metadata(get_metadata_path()).
FinaliseWriteMetadata ==
    /\ pc = "write_xml"
    /\ disk' = [disk EXCEPT ![get_metadata_path(DB_NAME)] = get_metadata(T)]
    /\ pc' = "move_dat"
    /\ UNCHANGED <<T, last>>
    /\ UNCHANGED others

\* Table.finalise_build: shutil.move of the data file, and then the finally
\* clauses of Database.close and Table.close.
FinaliseMoveData ==
    /\ pc = "move_dat"
    /\ disk' = Move(disk, get_data_build_path, get_data_path)
    /\ T' = close_finally(T)
    /\ pc' = "idle"
    /\ last' = Result("close", "ok", <<>>, 0, <<>>)
    /\ UNCHANGED others

\* Table.__len__ as a function of the object: the object afterwards and the
\* number returned.
table_len(t, d) ==
    IF get_open_mode(t) = WT_READ /\ t.num_rows = 0
    THEN [t EXCEPT !.num_rows = LLNumRows(d, ll_db_file(t.build))]
    ELSE t

\* len(t)
TableLen ==
    /\ Idle
    /\ IF ~verify_open(T)
       THEN /\ last' = Result("len", "ValueError", <<>>, 0, <<>>)
            /\ UNCHANGED T
       ELSE /\ T' = table_len(T, disk)
            /\ last' = Result("len", "ok", <<>>, T'.num_rows, <<>>)
    /\ UNCHANGED <<disk, pc>>
    /\ UNCHANGED others

\* t.get_row(k) finds a row for 0 <= k < num_rows and raises otherwise.
LLGetRowOk(d, db_file, k) == 0 <= k /\ k < LLNumRows(d, db_file)

\* The row ids a caller asks for.
GetKeys == (0 - (MaxRows + 1))..(MaxRows + 1)

\* Table.__getitem__(key) for an integer key.
TableGet ==
    /\ Idle
    /\ IF ~verify_open_mode(T, WT_READ)
       THEN /\ last' = Result("get", "ValueError", <<>>, 0, <<>>)
            /\ UNCHANGED T
       ELSE \E key \in GetKeys :
            LET t1 == table_len(T, disk)
                n == t1.num_rows
                k == IF key < 0 THEN n + key ELSE key
            IN /\ T' = t1
               /\ IF k >= n
                  THEN last' = ResultF("get", "IndexError", <<key>>, 0, <<>>, <<>>)
                  ELSE IF LLGetRowOk(disk, ll_db_file(t1.build), k)
                       THEN last' = ResultF("get", "ok", <<key>>, 0,
                                <<LLGetRow(disk, ll_data_file(t1.build), k)>>, <<k>>)
                       ELSE last' = ResultF("get", "LLError", <<key>>, 0, <<>>, <<k>>)
    /\ UNCHANGED <<disk, pc>>
    /\ UNCHANGED others

\* A column identifier as a caller of cursor passes it: a position or a name.
IntId(k) == [kind |-> "int", pos |-> k, name |-> ""]

NameId(c) == [kind |-> "str", pos |-> 0, name |-> c]

AllColNames == {PRIMARY_KEY_NAME} \cup DataColNames

\* The identifiers tried: the first position, a position that only the
\* widest schema has, and a name that the narrowest schema lacks.
ColIds == {IntId(0), IntId(NumCols - 1), NameId(DataColOrder[1])}

\* The column lists a caller of cursor passes.
ColIdLists == UNION {[1..n -> ColIds] : n \in 0..2}

\* Table.get_column / Table.translate_columns for one identifier: whether
\* the lookup succeeds, and the position of the column found.
translate_ok(t, id) ==
    IF id.kind = "int" THEN id.pos < Len(t.columns)
    ELSE \E e \in t.column_name_map : e[1] = id.name

translate_pos(t, id) ==
    IF id.kind = "int" THEN id.pos
    ELSE (CHOOSE e \in t.column_name_map : e[1] = id.name)[2]

\* _wormtable.TableRowIterator with set_min / set_max applied: the rows with
\* min <= row_id (and row_id < max when a maximum was set), in row id order,
\* each projected to the column positions in col_pos.
RECURSIVE LLTableRowIterator(_, _, _, _)
LLTableRowIterator(rows, col_pos, it, k) ==
    IF k >= Len(rows) \/ (it.max_set /\ k >= it.max) THEN <<>>
    ELSE <<[c \in 1..Len(col_pos) |-> rows[k + 1][col_pos[c] + 1]]>>
         \o LLTableRowIterator(rows, col_pos, it, k + 1)

\* The bounds if cursor tested stop for truth instead of for None.
cursor_bounds_Truthy(start, stop) ==
    [min |-> start, max_set |-> (stop # None /\ stop # 0), max |-> stop]

\* The bounds Table.cursor hands to the iterator.
cursor_bounds(start, stop) ==
    [min |-> start, max_set |-> stop # None, max |-> stop]

\* Table.cursor(columns, start, stop), and the iteration of the cursor it
\* returns.  A cursor changes neither the table nor the disk, so what a
\* second cursor yields right after a first is what it yields in its place:
\* the model takes the calls one at a time.
TableCursor ==
    /\ Idle
    /\ last.op # "cursor"
    /\ IF ~verify_open_mode(T, WT_READ)
       THEN last' = Result("cursor", "ValueError", <<>>, 0, <<>>)
       ELSE \E columns \in ColIdLists, start \in 0..MaxRows,
               stop \in {None} \cup 0..MaxRows :
            IF \E c \in 1..Len(columns) : ~translate_ok(T, columns[c])
            THEN last' = [ResultF("cursor", "LookupError", <<start, stop>>, 0, <<>>, <<>>)
                            EXCEPT !.cols = columns]
            ELSE LET col_pos == [c \in 1..Len(columns) |-> translate_pos(T, columns[c])]
                     it == cursor_bounds(start, stop)
                 IN last' = [ResultF("cursor", "ok", <<start, stop>>, 0,
                                LLTableRowIterator(disk[ll_data_file(T.build)].rows,
                                                   col_pos, it, it.min), <<>>)
                                EXCEPT !.cols = columns]
    /\ UNCHANGED <<disk, T, pc>>
    /\ UNCHANGED others

\* open_table(homedir) by a reader in another process, followed by len()
\* and a read of every row.
ReaderOpenTable ==
    /\ IF ~exists(disk, DB_NAME)
       THEN last' = Result("open_table", "IOError", <<>>, 0, <<>>)
       ELSE LET t1 == set_metadata(NewTable, disk[get_metadata_path(DB_NAME)])
            IN IF LLTableCreateOk(t1.columns)
                  /\ LLTableOpenReadOk(disk, ll_db_file(FALSE), ll_data_file(FALSE))
               THEN LET t2 == table_len([t1 EXCEPT !.ll = TRUE,
                                                   !.open_mode = WT_READ], disk)
                    IN last' = Result("open_table", "ok", <<>>, t2.num_rows,
                                      disk[get_data_path].rows)
               ELSE last' = Result("open_table", "error", <<>>, 0, <<>>)
    /\ UNCHANGED <<disk, T, pc>>
    /\ UNCHANGED others

(***************************** the Index ***********************************)
\* The file the low-level index works on (Index._create_ll_object).
index_ll_file(name, build) ==
    IF build THEN get_db_build_path(index_db_name(name))
    ELSE get_db_path(index_db_name(name))

\* _wormtable.Index(table, filename, cols, cache_size) needs the low-level
\* table of an open Table.
LLIndexCreateOk(t) == t.ll

\* llo.open(WT_WRITE) creates the file, empty.
LLIndexOpenWrite(d, file) == [d EXCEPT ![file] = EmptyStore]

\* Strings are represented by numbers from StrBase on, in the order of the
\* strings; the numbers below StrBase are numeric values.
IsStr(v) == v >= StrBase

\* The key component that the index stores for the value v of a key column
\* with bin width w: a numeric value is replaced by floor(v / w) * w when
\* w > 0 (w taken as an integer for an integer column); a missing value and
\* a string are stored as they are.
LLBin(v, w) ==
    IF w > 0 /\ v # None /\ ~IsStr(v) THEN (v \div w) * w ELSE v

\* The key of a row: the binned values of the key columns, in their order.
LLIndexKey(row, col_pos, bin_widths) ==
    [j \in 1..Len(col_pos) |-> LLBin(row[col_pos[j] + 1], bin_widths[j])]

\* The order of keys of the same length: column by column, a missing value
\* before every value.
KeyLess(a, b) ==
    \E j \in 1..Len(a) : a[j] < b[j] /\ \A h \in 1..(j - 1) : a[h] = b[h]

\* The order of the entries <<key, row_id>> of an index.
EntryLess(e, f) == KeyLess(e[1], f[1]) \/ (e[1] = f[1] /\ e[2] < f[2])

RECURSIVE SortEntries(_)
SortEntries(S) ==
    IF S = {} THEN <<>>
    ELSE LET m == CHOOSE e \in S : \A f \in S \ {e} : EntryLess(e, f)
         IN <<m>> \o SortEntries(S \ {m})

\* llo.build(progress_callback, callback_rows): the rows of the table are
\* entered in row id order, each under its key, and the callback is called
\* after every callback_rows rows; a callback that raises ends the build, and
\* the entries made so far stay in the file.  k is the number of rows
\* entered.  The file holds the entries in the order of their keys.
LLIndexBuild(d, file, data_file, col_pos, bin_widths, k) ==
    LET rows == d[data_file].rows
        entries == {<<LLIndexKey(rows[j], col_pos, bin_widths), rows[j][1]>> :
                        j \in 1..k}
    IN [d EXCEPT ![file].rows = SortEntries(entries), ![file].num_rows = k]

\* The numbers of rows after which the callback is called.
LLCallbackPoints(n, callback_rows) ==
    {k \in 1..n : k % callback_rows = 0}

\* Table.get_column(name): the name must be in the name map.
get_column_ok(t, name) == \E e \in t.column_name_map : e[1] = name

\* Index.get_metadata: the document that write_metadata stores.
index_get_metadata(i) ==
    [exists |-> TRUE,
     columns |-> [j \in 1..Len(i.key_columns) |->
                    <<i.key_columns[j], i.bin_widths[j]>>],
     num_rows |-> 0, rows |-> <<>>]

\* Database.finalise_build for an Index.
index_finalise_build(i, d) ==
    [Move(d, get_db_build_path(index_db_name(i.name)),
             get_db_path(index_db_name(i.name)))
        EXCEPT ![get_metadata_path(index_db_name(i.name))] = index_get_metadata(i)]

\* The finally clauses of Database.close and Index.close.
index_close_finally(i) ==
    [i EXCEPT !.open_mode = NoMode, !.ll = FALSE, !.key_columns = <<>>,
              !.bin_widths = <<>>]

\* Index.close: how it ends, the object and the disk afterwards.
index_close(i, d) ==
    IF ~i.ll
    THEN [res |-> "AttributeError", i |-> index_close_finally(i), d |-> d]
    ELSE [res |-> "ok", i |-> index_close_finally(i),
          d |-> IF i.open_mode = WT_WRITE THEN index_finalise_build(i, d) ELSE d]

\* Index.open(mode): how it ends, the object and the disk afterwards.
index_open(i, t, d, mode) ==
    IF ~verify_open_mode(t, WT_READ)
    THEN [res |-> "ValueError", i |-> i, d |-> d]
    ELSE LET i0 == [i EXCEPT !.open_mode = NoMode, !.ll = FALSE]
             xml == d[get_metadata_path(index_db_name(i.name))]
         IN IF mode = WT_WRITE
            THEN IF LLIndexCreateOk(t)
                 THEN [res |-> "ok",
                       i |-> [i0 EXCEPT !.ll = TRUE, !.open_mode = WT_WRITE],
                       d |-> LLIndexOpenWrite(d, index_ll_file(i.name, TRUE))]
                 ELSE [res |-> "error", i |-> i0, d |-> d]
            ELSE IF ~xml.exists
                 THEN [res |-> "IOError", i |-> i0, d |-> d]
                 ELSE IF \E k \in 1..Len(xml.columns) :
                            ~get_column_ok(t, xml.columns[k][1])
                      THEN [res |-> "KeyError", i |-> i0, d |-> d]
                      ELSE LET n == Len(xml.columns)
                               i1 == [i0 EXCEPT
                                      !.key_columns = @ \o [k \in 1..n |-> xml.columns[k][1]],
                                      !.bin_widths = @ \o [k \in 1..n |-> xml.columns[k][2]]]
                           IN IF LLIndexCreateOk(t)
                                 /\ d[index_ll_file(i.name, FALSE)].exists
                              THEN [res |-> "ok",
                                    i |-> [i1 EXCEPT !.ll = TRUE, !.open_mode = WT_READ],
                                    d |-> d]
                              ELSE [res |-> "error", i |-> i1, d |-> d]

\* Table.open_index(index_name) by a program that holds no open index.
OpenIndex ==
    /\ Idle
    /\ ~I.ll
    /\ IF ~verify_open_mode(T, WT_READ)
       THEN /\ last' = Result("open_index", "ValueError", <<>>, 0, <<>>)
            /\ UNCHANGED I
       ELSE \E name \in IndexNames :
            LET r == index_open([NewIndex EXCEPT !.name = name], T, disk, WT_READ)
            IN IF ~exists(disk, index_db_name(name))
               THEN /\ last' = Result("open_index", "IOError", <<>>, 0, <<>>)
                    /\ UNCHANGED I
               ELSE /\ last' = Result("open_index", r.res, <<>>, 0, <<>>)
                    /\ I' = IF r.res = "ok" THEN r.i ELSE I
    /\ UNCHANGED <<disk, T, pc, gen, adm>>
    /\ UNCHANGED aux

\* Index.close() on the Index object the program holds.
IndexClose ==
    /\ Idle
    /\ I.name # ""
    /\ LET r == index_close(I, disk)
       IN /\ I' = r.i
          /\ disk' = r.d
          /\ last' = Result("index_close", r.res, <<>>, 0, <<>>)
    /\ UNCHANGED <<T, pc, gen, adm>>
    /\ UNCHANGED aux

\* Table.indexes(): a generator function.  The call returns the generator;
\* nothing of the body has run.
IndexesCall ==
    /\ Idle
    /\ ~gen
    /\ gen' = TRUE
    /\ last' = Result("indexes", "ok", <<>>, 0, <<>>)
    /\ UNCHANGED <<disk, T, pc, I, adm>>
    /\ UNCHANGED aux

\* The names that the glob of Table.indexes finds.
indexes_names(d) == {nm \in IndexNames : d[get_db_path(index_db_name(nm))].exists}

\* The iteration of the generator: the body of Table.indexes runs.
IndexesNext ==
    /\ Idle
    /\ gen
    /\ gen' = FALSE
    /\ IF ~verify_open_mode(T, WT_READ)
       THEN last' = Result("indexes_next", "ValueError", <<>>, 0, <<>>)
       ELSE last' = Result("indexes_next", "ok", <<>>, 0, indexes_names(disk))
    /\ UNCHANGED <<disk, T, pc, I, adm>>
    /\ UNCHANGED aux

(************************** wtadmin add ************************************)
\* A text is a sequence of characters.  float(text) and int(text) of the
\* decimal text of a natural number, and str(n).
DigitChars == <<"0", "1", "2", "3", "4", "5", "6", "7", "8", "9">>
DigitValue(ch) == CHOOSE d \in 0..9 : DigitChars[d + 1] = ch

RECURSIVE ParseNat(_)
ParseNat(text) ==
    IF text = <<>> THEN 0
    ELSE ParseNat(SubSeq(text, 1, Len(text) - 1)) * 10 + DigitValue(text[Len(text)])

RECURSIVE FormatNat(_)
FormatNat(n) ==
    IF n < 10 THEN <<DigitChars[n + 1]>>
    ELSE FormatNat(n \div 10) \o <<DigitChars[(n % 10) + 1]>>

\* The COLSPEC argument of wtadmin add, split at "+": for each key column
\* its name, whether a bin width in brackets follows, and the text between
\* the brackets.
ColSpecItem(name, bracket, text) == [name |-> name, bracket |-> bracket, text |-> text]

\* Here one key column without bin width.
ColSpecs == {<<ColSpecItem(c, FALSE, <<>>)>> : c \in {PRIMARY_KEY_NAME, DataColOrder[1]}}

\* AddRunner.parse_colspec if it dropped the bin width.
parse_colspec_NoBinWidth(colspec) ==
    [k \in 1..Len(colspec) |-> <<colspec[k].name, 0>>]

\* AddRunner.parse_colspec: the key columns and their bin widths, 0 for a
\* column without brackets.
parse_colspec(colspec) ==
    [k \in 1..Len(colspec) |->
        <<colspec[k].name,
          IF colspec[k].bracket THEN ParseNat(colspec[k].text) ELSE 0>>]

\* The positions in the table of the key columns of an index
\* (Index._create_ll_object).
index_col_pos(i, t) ==
    [j \in 1..Len(i.key_columns) |-> translate_pos(t, NameId(i.key_columns[j]))]

\* max(1, int(n / 1000))
callback_rows(n) == IF (n \div 1000) > 1 THEN n \div 1000 ELSE 1

\* Database.open("r") of a new Table object: how it ends and the object.
table_open_read(d) ==
    LET xml == d[get_metadata_path(DB_NAME)]
        t1 == set_metadata(NewTable, xml)
    IN IF ~xml.exists THEN [res |-> "IOError", t |-> NewTable]
       ELSE IF LLTableCreateOk(t1.columns)
               /\ LLTableOpenReadOk(d, ll_db_file(FALSE), ll_data_file(FALSE))
            THEN [res |-> "ok", t |-> [t1 EXCEPT !.ll = TRUE, !.open_mode = WT_READ]]
            ELSE [res |-> "error", t |-> t1]

\* AddRunner.__init__ and AddRunner.init: the table is opened for reading, an
\* existing index is refused without --force, the colspec is parsed and the
\* index is opened for writing.  An error leaves through the finally clause
\* of wtadmin_main, to cleanup.
AdmAddInit(nm, colspec, force) ==
    /\ Idle
    /\ T = NewTable
    /\ ~I.ll
    /\ LET r == table_open_read(disk)
           i0 == [NewIndex EXCEPT !.name = nm]
           cs == parse_colspec(colspec)
           i1 == [i0 EXCEPT
                  !.key_columns = [k \in 1..Len(cs) |-> cs[k][1]],
                  !.bin_widths = [k \in 1..Len(cs) |-> cs[k][2]]]
           w == index_open(i1, r.t, disk, WT_WRITE)
       IN IF ~exists(disk, DB_NAME)
          THEN /\ adm' = [pc |-> "cleanup", err |-> "table_not_found"]
               /\ I' = NewIndex
               /\ UNCHANGED <<T, disk>>
          ELSE IF r.res # "ok"
          THEN /\ adm' = [pc |-> "cleanup", err |-> "open_error"]
               /\ T' = r.t
               /\ I' = NewIndex
               /\ UNCHANGED disk
          ELSE IF exists(disk, index_db_name(nm)) /\ ~force
          THEN /\ adm' = [pc |-> "cleanup", err |-> "index_exists"]
               /\ T' = r.t
               /\ I' = i0
               /\ UNCHANGED disk
          ELSE IF \E k \in 1..Len(colspec) : ~get_column_ok(r.t, colspec[k].name)
          THEN /\ adm' = [pc |-> "cleanup", err |-> "KeyError"]
               /\ T' = r.t
               /\ I' = i0
               /\ UNCHANGED disk
          ELSE /\ adm' = [pc |-> IF w.res = "ok" THEN "run" ELSE "cleanup",
                          err |-> IF w.res = "ok" THEN "" ELSE "open_error"]
               /\ T' = r.t
               /\ I' = w.i
               /\ disk' = w.d
    /\ last' = Result("wtadmin_add", "running", colspec, 0, <<>>)
    /\ UNCHANGED <<pc, gen>>
    /\ UNCHANGED aux

\* AddRunner.run: the build, which ends when all rows are entered or when
\* the progress callback raises.
AdmAddRun ==
    /\ adm.pc = "run"
    /\ LET t1 == table_len(T, disk)
           n == t1.num_rows
           file == index_ll_file(I.name, TRUE)
       IN /\ T' = t1
          /\ \/ /\ disk' = LLIndexBuild(disk, file, ll_data_file(T.build),
                                       index_col_pos(I, T), I.bin_widths, n)
                /\ adm' = [pc |-> "cleanup", err |-> ""]
             \/ \E k \in LLCallbackPoints(n, callback_rows(n)) :
                /\ disk' = LLIndexBuild(disk, file, ll_data_file(T.build),
                                       index_col_pos(I, T), I.bin_widths, k)
                /\ adm' = [pc |-> "cleanup", err |-> "build_error"]
    /\ UNCHANGED <<pc, last, I, gen>>
    /\ UNCHANGED aux

\* AddRunner.cleanup, from the finally clause of wtadmin_main: the index and
\* the table are closed if they are open.
AdmAddCleanup ==
    /\ adm.pc = "cleanup"
    /\ LET r == index_close(I, disk)
       IN /\ I' = IF is_open(I) THEN r.i ELSE I
          /\ disk' = IF is_open(I) THEN r.d ELSE disk
    /\ T' = IF is_open(T) THEN close_finally(T) ELSE T
    /\ adm' = NoRun
    /\ last' = Result("wtadmin_add", IF adm.err = "" THEN "ok" ELSE adm.err,
                      last.arg, 0, <<>>)
    /\ UNCHANGED <<pc, gen>>
    /\ UNCHANGED aux

(************************ reading an index *********************************)
\* KEY_UNSET = "KEY_UNSET": a string, the second of the strings here.
StrA == StrBase
KEY_UNSET == StrBase + 1

\* A Python value given as a key: a single value or a tuple of values.  The
\* field v holds the value or the elements of the tuple.
PyVal(x) == [kind |-> "val", v |-> <<x>>]
PyTuple(x) == [kind |-> "tuple", v |-> x]

\* The characters of the strings here, each a string of one character:
\* "A" is its own character, and the characters of "KEY_UNSET" are strings
\* coded above it.
KeyUnsetText == <<"K", "E", "Y", "_", "U", "N", "S", "E", "T">>
StrLen(x) == IF x = StrA THEN 1 ELSE Len(KeyUnsetText)
StrChar(x, j) ==
    IF x = StrA THEN StrA
    ELSE KEY_UNSET + (CHOOSE k \in 1..j :
                        /\ KeyUnsetText[k] = KeyUnsetText[j]
                        /\ \A m \in 1..(k - 1) : KeyUnsetText[m] # KeyUnsetText[j])

\* Index.key_to_ll: how it ends and the tuple it returns, a sequence of
\* Python values.  With one key column the argument itself, value or tuple,
\* is the one element; otherwise len(v) and v[j] are taken of the argument:
\* the elements of a tuple, the characters of a string, and a TypeError for
\* a number.
key_to_ll(i, v) ==
    IF Len(i.key_columns) = 1 THEN [res |-> "ok", key |-> <<v>>]
    ELSE IF v.kind = "tuple"
    THEN [res |-> "ok", key |-> [j \in 1..Len(v.v) |-> PyVal(v.v[j])]]
    ELSE IF v.v[1] # None /\ IsStr(v.v[1])
    THEN [res |-> "ok",
          key |-> [j \in 1..StrLen(v.v[1]) |-> PyVal(StrChar(v.v[1], j))]]
    ELSE [res |-> "TypeError", key |-> <<>>]

\* The key that the low-level index makes of a tuple of single values.
LLKeyItems(key) == [j \in 1..Len(key) |-> key[j].v[1]]

\* The first n components of a key.
KeyPrefix(k, n) == SubSeq(k, 1, n)

\* _wormtable.IndexRowIterator with set_min / set_max applied: the entries
\* from position j on whose key is at least min and below max, each bound
\* compared with as many components of the key as it has, in the order of
\* the index; for each the row of the table, projected to col_pos.
RECURSIVE LLIndexRowIterator(_, _, _, _, _)
LLIndexRowIterator(entries, rows, col_pos, it, j) ==
    IF j > Len(entries) THEN <<>>
    ELSE LET k == entries[j][1]
             row == rows[entries[j][2] + 1]
             in_range ==
                /\ it.min_set => ~KeyLess(KeyPrefix(k, Len(it.min)), it.min)
                /\ it.max_set => KeyLess(KeyPrefix(k, Len(it.max)), it.max)
         IN (IF in_range
             THEN <<[c \in 1..Len(col_pos) |-> row[col_pos[c] + 1]]>>
             ELSE <<>>)
            \o LLIndexRowIterator(entries, rows, col_pos, it, j + 1)

\* llo.get_num_rows(k): the number of entries with the key k.
LLIndexNumRows(entries, k) ==
    Cardinality({j \in 1..Len(entries) : entries[j][1] = k})

\* The bounds if Index.cursor translated and set both without the test for
\* KEY_UNSET.
index_cursor_bounds_AlwaysSet(i, start, stop) ==
    [min_set |-> TRUE, min |-> LLKeyItems(key_to_ll(i, start).key),
     max_set |-> TRUE, max |-> LLKeyItems(key_to_ll(i, stop).key)]

\* The bounds Index.cursor hands to the iterator: a bound that differs from
\* KEY_UNSET is translated and set.
index_cursor_bounds(i, start, stop) ==
    [min_set |-> start # PyVal(KEY_UNSET),
     min |-> IF start # PyVal(KEY_UNSET) THEN LLKeyItems(key_to_ll(i, start).key)
             ELSE <<>>,
     max_set |-> stop # PyVal(KEY_UNSET),
     max |-> IF stop # PyVal(KEY_UNSET) THEN LLKeyItems(key_to_ll(i, stop).key)
             ELSE <<>>]

\* The values that the columns of the tables read here hold: numbers and a
\* missing value in the first data column, strings in the second.
IdxNums == 0..(MaxVal + 1)
IdxStrs == {StrA, KEY_UNSET}
ColValues(name) ==
    IF name = PRIMARY_KEY_NAME THEN 0..(MaxRows - 1)
    ELSE IF name = DataColOrder[1] THEN IdxNums \cup {None}
    ELSE IdxStrs

\* The keys a caller passes to an index: a value for an index with one key
\* column, a tuple of up to as many values as there are key columns
\* otherwise.
KeyTuples(kc) ==
    UNION {{t \in [1..n -> UNION {ColValues(c) : c \in AllColNames}] :
                \A j \in 1..n : t[j] \in ColValues(kc[j]) /\ t[j] # None} :
           n \in 0..Len(kc)}
KeyInputs(i) ==
    IF Len(i.key_columns) = 1
    THEN {PyVal(x) : x \in ColValues(i.key_columns[1])}
    ELSE {PyTuple(t) : t \in KeyTuples(i.key_columns)}

\* The column lists asked of an index cursor.
IdxColLists ==
    {<<NameId(PRIMARY_KEY_NAME)>>, <<NameId(DataColOrder[2]), NameId(DataColOrder[1])>>}

\* Index.cursor(columns, start, stop) and the iteration of the cursor.  An
\* argument that is not given has its default, KEY_UNSET.
IndexCursor ==
    /\ Idle
    /\ last.op # "index_cursor"
    /\ IF ~verify_open_mode(I, WT_READ)
       THEN last' = Result("index_cursor", "ValueError", <<>>, 0, <<>>)
       ELSE \E columns \in IdxColLists, start_given \in BOOLEAN, stop_given \in BOOLEAN :
            \E sv \in IF start_given THEN KeyInputs(I) ELSE {PyVal(KEY_UNSET)},
               pv \in IF stop_given THEN KeyInputs(I) ELSE {PyVal(KEY_UNSET)} :
            IF \E c \in 1..Len(columns) : ~translate_ok(T, columns[c])
            THEN last' = Result("index_cursor", "LookupError", <<>>, 0, <<>>)
            ELSE LET col_pos == [c \in 1..Len(columns) |-> translate_pos(T, columns[c])]
                     it == index_cursor_bounds(I, sv, pv)
                 IN last' = [ResultF("index_cursor", "ok",
                                <<start_given, sv, stop_given, pv>>, 0,
                                LLIndexRowIterator(
                                    disk[index_ll_file(I.name, FALSE)].rows,
                                    disk[ll_data_file(T.build)].rows,
                                    col_pos, it, 1),
                                <<it.min_set, it.max_set>>)
                                EXCEPT !.cols = columns]
    /\ UNCHANGED <<disk, T, pc, I, gen, adm>>
    /\ UNCHANGED aux

\* Index.counter()[key]: the number of rows under the key.  What the
\* low-level index does once its table is closed is not fixed here.
IndexCount ==
    /\ Idle
    /\ last.op # "index_count"
    /\ IF ~verify_open_mode(I, WT_READ)
       THEN last' = Result("index_count", "ValueError", <<>>, 0, <<>>)
       ELSE \E key \in KeyInputs(I) :
            \/ last' = Result("index_count", "ok", <<key>>,
                              LLIndexNumRows(disk[index_ll_file(I.name, FALSE)].rows,
                                             LLKeyItems(key_to_ll(I, key).key)),
                              <<>>)
            \/ /\ ~is_open(T)
               /\ last' = Result("index_count", "error", <<>>, 0, <<>>)
    /\ UNCHANGED <<disk, T, pc, I, gen, adm>>
    /\ UNCHANGED aux

\* A closed table with the columns row_id, a and b: its three files.
StoredTable(bodies) ==
    [p \in Paths |->
        IF p = get_db_path(DB_NAME)
        THEN [EmptyStore EXCEPT !.num_rows = Len(bodies)]
        ELSE IF p = get_data_path
        THEN [EmptyStore EXCEPT
                !.rows = [j \in 1..Len(bodies) |-> <<j - 1>> \o bodies[j]]]
        ELSE IF p = get_metadata_path(DB_NAME)
        THEN [EmptyStore EXCEPT !.columns = <<PRIMARY_KEY_NAME>> \o DataColOrder,
                                !.num_rows = Len(bodies)]
        ELSE NoFile]

\* The tables read through an index: up to MaxRows rows.
IdxRowBodies == {<<a, b>> : a \in ColValues(DataColOrder[1]), b \in ColValues(DataColOrder[2])}
IdxTables == UNION {[1..n -> IdxRowBodies] : n \in 0..MaxRows}

InitIndexRead ==
    /\ \E bodies \in IdxTables : disk = StoredTable(bodies)
    /\ T = NewTable
    /\ pc = "idle"
    /\ last = NoResult
    /\ I = NewIndex
    /\ gen = FALSE
    /\ adm = NoRun
    /\ meta = NoMeta
    /\ procs = NoProcs
    /\ dir = NoDir
    /\ web = NoWeb

\* The bin width given in brackets.
BinWidthText == <<"2">>

\* The column specifications of the indexes read: one key column with and
\* without bin width, and two key columns.
IdxColSpecs ==
    {<<ColSpecItem(PRIMARY_KEY_NAME, FALSE, <<>>)>>,
     <<ColSpecItem(DataColOrder[1], FALSE, <<>>)>>,
     <<ColSpecItem(DataColOrder[1], TRUE, BinWidthText)>>,
     <<ColSpecItem(DataColOrder[2], FALSE, <<>>)>>,
     <<ColSpecItem(DataColOrder[2], FALSE, <<>>), ColSpecItem(DataColOrder[1], TRUE, BinWidthText)>>}

\* Programs that build an index over a closed table with wtadmin add and
\* read the table through it.
IndexReadNext ==
    \/ \E nm \in IndexNames, colspec \in IdxColSpecs, force \in BOOLEAN :
            AdmAddInit(nm, colspec, force)
    \/ AdmAddRun
    \/ AdmAddCleanup
    \/ OpenRead
    \/ CloseBegin
    \/ OpenIndex
    \/ IndexClose
    \/ IndexCursor
    \/ IndexCount

SpecIndexRead == InitIndexRead /\ [][IndexReadNext]_vars

(************************* translating a key *******************************)
\* The single values handed to key_to_ll, alone and as a singleton tuple.
KeyValues == IdxNums \cup {StrA}

\* i.key_to_ll(x) and i.key_to_ll((x,)) on the Index object of the program.
KeyToLL(x) ==
    /\ Idle
    /\ last' = Result("key_to_ll", "ok", <<x>>, 0,
                      <<key_to_ll(I, PyVal(x)), key_to_ll(I, PyTuple(<<x>>))>>)
    /\ UNCHANGED <<disk, T, pc, I, gen, adm>>
    /\ UNCHANGED aux

\* Programs that build an index, open it and translate keys for it.
KeyNext ==
    \/ \E nm \in IndexNames, colspec \in IdxColSpecs, force \in BOOLEAN :
            AdmAddInit(nm, colspec, force)
    \/ AdmAddRun
    \/ AdmAddCleanup
    \/ OpenRead
    \/ CloseBegin
    \/ OpenIndex
    \/ IndexClose
    \/ \E x \in KeyValues : KeyToLL(x)

SpecKey == InitIndexRead /\ [][KeyNext]_vars

(************************ metadata documents *******************************)
\* Texts are sequences of characters; a word without a character that XML
\* treats specially stands as one element.
TABLE_METADATA_VERSION == <<"0.3">>

\* Column.ELEMENT_TYPE_STRING_MAP
ELEMENT_TYPE_STRING_MAP ==
    {<<"WT_INT", <<"int">>>>, <<"WT_UINT", <<"uint">>>>,
     <<"WT_CHAR", <<"char">>>>, <<"WT_FLOAT", <<"float">>>>}

\* The num_elements of a column with a variable number of elements: values
\* that are no count.
WT_VAR_1 == 0
WT_VAR_2 == -3

\* str.encode() and bytes.decode() of a text of ASCII characters.
encode(text) == [bytes |-> text]
decode(b) == b.bytes

\* _wormtable.Column(name, description, element_type, element_size,
\* num_elements)
LLColumn(name, description, element_type, element_size, num_elements) ==
    [name |-> name, description |-> description, element_type |-> element_type,
     element_size |-> element_size, num_elements |-> num_elements]

\* Column.get_type_name
get_type_name(col) ==
    (CHOOSE e \in ELEMENT_TYPE_STRING_MAP : e[1] = col.element_type)[2]

\* Column.get_xml: the element "column" with its five attributes.
get_xml(col) ==
    [tag |-> "column",
     name |-> decode(col.name),
     description |-> decode(col.description),
     element_size |-> FormatNat(col.element_size),
     num_elements |-> IF col.num_elements = WT_VAR_1 THEN <<"var(1)">>
                      ELSE IF col.num_elements = WT_VAR_2 THEN <<"var(2)">>
                      ELSE FormatNat(col.num_elements),
     element_type |-> get_type_name(col)]

\* Whether int(text) returns: the text is a decimal number.
IsDecimal(text) ==
    /\ text # <<>>
    /\ \A j \in 1..Len(text) : \E d \in 1..10 : DigitChars[d] = text[j]

\* Column.parse_xml: the error it raises, if any.
parse_xml_error(xmlcol) ==
    IF xmlcol.tag # "column" THEN "ValueError"
    ELSE IF ~IsDecimal(xmlcol.element_size) THEN "ValueError"
    ELSE IF xmlcol.num_elements \notin {<<"var(1)">>, <<"var(2)">>}
            /\ ~IsDecimal(xmlcol.num_elements) THEN "ValueError"
    ELSE IF ~\E e \in ELEMENT_TYPE_STRING_MAP : e[2] = xmlcol.element_type
    THEN "KeyError"
    ELSE "ok"

\* Column.parse_xml: the column it returns.
parse_xml(xmlcol) ==
    LLColumn(encode(xmlcol.name), encode(xmlcol.description),
             (CHOOSE e \in ELEMENT_TYPE_STRING_MAP : e[2] = xmlcol.element_type)[1],
             ParseNat(xmlcol.element_size),
             IF xmlcol.num_elements = <<"var(1)">> THEN WT_VAR_1
             ELSE IF xmlcol.num_elements = <<"var(2)">> THEN WT_VAR_2
             ELSE ParseNat(xmlcol.num_elements))

\* The Table object with its statistics (Table.__init__).
TableObject ==
    [ll |-> FALSE, open_mode |-> NoMode, columns |-> <<>>, column_name_map |-> {},
     num_rows |-> 0, total_row_size |-> 0, min_row_size |-> 0, max_row_size |-> 0]

\* Table._generate_schema_xml
generate_schema_xml(t) ==
    [address_size |-> <<"2">>,
     columns |-> [j \in 1..Len(t.columns) |-> get_xml(t.columns[j])]]

\* Table._generate_stats_xml if it wrote the largest row size under the
\* name of the smallest and the smallest under the name of the largest.
generate_stats_xml_SwapMinMax(t) ==
    <<[name |-> <<"num_rows">>, value |-> FormatNat(t.num_rows)],
      [name |-> <<"max_row_size">>, value |-> FormatNat(t.min_row_size)],
      [name |-> <<"min_row_size">>, value |-> FormatNat(t.max_row_size)],
      [name |-> <<"total_row_size">>, value |-> FormatNat(t.total_row_size)]>>

\* Table._generate_stats_xml
generate_stats_xml(t) ==
    <<[name |-> <<"num_rows">>, value |-> FormatNat(t.num_rows)],
      [name |-> <<"max_row_size">>, value |-> FormatNat(t.max_row_size)],
      [name |-> <<"min_row_size">>, value |-> FormatNat(t.min_row_size)],
      [name |-> <<"total_row_size">>, value |-> FormatNat(t.total_row_size)]>>

\* Table.get_metadata: the tree of the document.
get_metadata_tree(t) ==
    [tag |-> "table", has_version |-> TRUE, version |-> TABLE_METADATA_VERSION,
     schema |-> generate_schema_xml(t), stats |-> generate_stats_xml(t)]

\* ElementTree.tostring: an attribute value is written with & < > " and the
\* newline as references.
escape_attrib(text) ==
    [j \in 1..Len(text) |->
        IF text[j] = "&" THEN "&amp;"
        ELSE IF text[j] = "<" THEN "&lt;"
        ELSE IF text[j] = ">" THEN "&gt;"
        ELSE IF text[j] = "\"" THEN "&quot;"
        ELSE IF text[j] = "\n" THEN "&#10;"
        ELSE text[j]]

\* An XML parser reading an attribute value: a reference gives its
\* character, and a literal newline or tab is normalised to a space.
xml_attr_value(written) ==
    [j \in 1..Len(written) |->
        IF written[j] = "&amp;" THEN "&"
        ELSE IF written[j] = "&lt;" THEN "<"
        ELSE IF written[j] = "&gt;" THEN ">"
        ELSE IF written[j] = "&quot;" THEN "\""
        ELSE IF written[j] = "&#10;" THEN "\n"
        ELSE IF written[j] \in {"\n", "\t"} THEN " "
        ELSE written[j]]

\* minidom's toprettyxml: an attribute value is written with & < " > as
\* references and every other character as it is.
minidom_write_data(text) ==
    [j \in 1..Len(text) |->
        IF text[j] = "&" THEN "&amp;"
        ELSE IF text[j] = "<" THEN "&lt;"
        ELSE IF text[j] = "\"" THEN "&quot;"
        ELSE IF text[j] = ">" THEN "&gt;"
        ELSE text[j]]

\* An attribute value on its way into the file (Database.write_metadata):
\* tostring, minidom.parseString, toprettyxml.
attr_to_file(text) == minidom_write_data(xml_attr_value(escape_attrib(text)))

\* Database.write_metadata: the document in the file.  The comment and the
\* indentation that are added are not attributes and are left out.
write_metadata(tree) ==
    [tree EXCEPT
        !.version = attr_to_file(@),
        !.schema.address_size = attr_to_file(@),
        !.schema.columns =
            [j \in 1..Len(@) |->
                [tag |-> @[j].tag,
                 name |-> attr_to_file(@[j].name),
                 description |-> attr_to_file(@[j].description),
                 element_size |-> attr_to_file(@[j].element_size),
                 num_elements |-> attr_to_file(@[j].num_elements),
                 element_type |-> attr_to_file(@[j].element_type)]],
        !.stats =
            [j \in 1..Len(@) |->
                [name |-> attr_to_file(@[j].name),
                 value |-> attr_to_file(@[j].value)]]]

\* ElementTree.parse of the file (Database.read_metadata).
ElementTree_parse(file) ==
    [file EXCEPT
        !.version = xml_attr_value(@),
        !.schema.address_size = xml_attr_value(@),
        !.schema.columns =
            [j \in 1..Len(@) |->
                [tag |-> @[j].tag,
                 name |-> xml_attr_value(@[j].name),
                 description |-> xml_attr_value(@[j].description),
                 element_size |-> xml_attr_value(@[j].element_size),
                 num_elements |-> xml_attr_value(@[j].num_elements),
                 element_type |-> xml_attr_value(@[j].element_type)]],
        !.stats =
            [j \in 1..Len(@) |->
                [name |-> xml_attr_value(@[j].name),
                 value |-> xml_attr_value(@[j].value)]]]

\* Table._parse_schema_xml: the columns are parsed and appended one by one;
\* an error leaves the columns parsed before it.
RECURSIVE parse_schema_tree(_, _)
parse_schema_tree(t, xml_columns) ==
    IF xml_columns = <<>> THEN [res |-> "ok", t |-> t]
    ELSE IF parse_xml_error(Head(xml_columns)) # "ok"
    THEN [res |-> parse_xml_error(Head(xml_columns)), t |-> t]
    ELSE LET col == parse_xml(Head(xml_columns))
             m == {e \in t.column_name_map : e[1] # decode(col.name)}
                    \cup {<<decode(col.name), Len(t.columns)>>}
         IN parse_schema_tree([t EXCEPT !.column_name_map = m,
                                        !.columns = Append(@, col)],
                              Tail(xml_columns))

\* Table._parse_stats_xml: the stats are taken one by one; an unknown name
\* raises, and the stats before it stay set.
RECURSIVE parse_stats_tree(_, _)
parse_stats_tree(t, stats) ==
    IF stats = <<>> THEN [res |-> "ok", t |-> t]
    ELSE LET name == Head(stats).name
             value == Head(stats).value
         IN IF name \notin {<<"num_rows">>, <<"max_row_size">>, <<"min_row_size">>,
                            <<"total_row_size">>}
            THEN [res |-> "ValueError", t |-> t]
            ELSE IF ~IsDecimal(value) THEN [res |-> "ValueError", t |-> t]
            ELSE parse_stats_tree(
                    IF name = <<"num_rows">> THEN [t EXCEPT !.num_rows = ParseNat(value)]
                    ELSE IF name = <<"max_row_size">>
                    THEN [t EXCEPT !.max_row_size = ParseNat(value)]
                    ELSE IF name = <<"min_row_size">>
                    THEN [t EXCEPT !.min_row_size = ParseNat(value)]
                    ELSE [t EXCEPT !.total_row_size = ParseNat(value)],
                    Tail(stats))

\* Table.set_metadata if it did not look at the version.
set_metadata_tree_AnyVersion(t, tree) ==
    IF tree.tag = "schema" THEN [res |-> "ValueError", t |-> t]
    ELSE IF tree.tag # "table" THEN [res |-> "ValueError", t |-> t]
    ELSE LET s == parse_schema_tree(t, tree.schema.columns)
         IN IF s.res # "ok" THEN s ELSE parse_stats_tree(s.t, tree.stats)

\* Table.set_metadata: the error it raises, if any, and the Table object.
set_metadata_tree(t, tree) ==
    IF tree.tag = "schema" THEN [res |-> "ValueError", t |-> t]
    ELSE IF tree.tag # "table" THEN [res |-> "ValueError", t |-> t]
    ELSE IF ~tree.has_version THEN [res |-> "ValueError", t |-> t]
    ELSE IF tree.version \notin {TABLE_METADATA_VERSION}
    THEN [res |-> "ValueError", t |-> t]
    ELSE LET s == parse_schema_tree(t, tree.schema.columns)
         IN IF s.res # "ok" THEN s ELSE parse_stats_tree(s.t, tree.stats)

\* The name of a column as one word.
ColumnWord(col) == IF Len(decode(col.name)) = 1 THEN decode(col.name)[1] ELSE ""

\* Database.open("r") on a Table object: read_metadata, then the low-level
\* table is made and opened.  The files of the table are there.
open_read_tree(t, file) ==
    LET t0 == [t EXCEPT !.open_mode = NoMode, !.ll = FALSE]
        r == set_metadata_tree(t0, ElementTree_parse(file))
    IN IF r.res # "ok" THEN r
       ELSE IF LLTableCreateOk([j \in 1..Len(r.t.columns) |->
                                    ColumnWord(r.t.columns[j])])
            THEN [res |-> "ok", t |-> [r.t EXCEPT !.ll = TRUE, !.open_mode = WT_READ]]
            ELSE [res |-> "error", t |-> r.t]

\* The finally clauses of Database.close and Table.close.
close_finally_tree(t) ==
    [t EXCEPT !.ll = FALSE, !.open_mode = NoMode, !.num_rows = 0,
              !.columns = <<>>, !.column_name_map = {}]

\* The descriptions given to columns.
Descriptions == {<<"d">>, <<"d", " ", "e">>, <<"d", "\n", "e">>, <<"&", "<">>}

\* The sizes of elements, the counts of elements and the statistics tried:
\* numbers of one and of two digits.
MetaNumbers == {1, 12}

\* The primary key column, and the data columns tried.
RowIdColumn == LLColumn(encode(<<PRIMARY_KEY_NAME>>), encode(<<"k">>), "WT_UINT", 4, 1)
MetaColumns ==
    {LLColumn(encode(<<"a">>), encode(d), e[1], z, n) :
        d \in Descriptions, e \in ELEMENT_TYPE_STRING_MAP, z \in MetaNumbers,
        n \in {WT_VAR_1, WT_VAR_2} \cup MetaNumbers}
MetaSchemas == {<<RowIdColumn>>} \cup {<<RowIdColumn, col>> : col \in MetaColumns}

\* The statistics of the low-level table at close.
MetaStats ==
    {[num_rows |-> n, total_row_size |-> n * 12, min_row_size |-> IF n = 0 THEN 0 ELSE 1,
      max_row_size |-> n]
     : n \in {0} \cup MetaNumbers}

\* Documents that this version did not write: the root tag, the version and
\* the name of the first stat vary.
ForeignDocs ==
    {[write_metadata(get_metadata_tree([TableObject EXCEPT !.columns = <<RowIdColumn>>]))
        EXCEPT !.tag = tag, !.has_version = hv, !.version = v, !.stats[1].name = nm] :
        tag \in {"table", "schema", "index"}, hv \in BOOLEAN,
        v \in {TABLE_METADATA_VERSION, <<"0.2">>},
        nm \in {<<"num_rows">>, <<"num_cols">>}}

NoDoc == [tag |-> "none"]
NoWritten == [set |-> FALSE]

\* A Table object open for writing with its columns added, or a home
\* directory with a document written elsewhere.
InitMeta ==
    /\ disk = [p \in Paths |-> NoFile]
    /\ T = NewTable
    /\ pc = "idle"
    /\ last = NoResult
    /\ I = NewIndex
    /\ gen = FALSE
    /\ adm = NoRun
    /\ procs = NoProcs
    /\ dir = NoDir
    /\ web = NoWeb
    /\ \/ \E cols \in MetaSchemas, st \in MetaStats :
            meta = [pc |-> "open_w",
                    t |-> [TableObject EXCEPT !.columns = cols, !.ll = TRUE,
                                              !.open_mode = WT_WRITE],
                    ll_stats |-> st, file |-> NoDoc, written |-> NoWritten,
                    op |-> "open_w", res |-> "ok"]
       \/ \E doc \in ForeignDocs :
            meta = [pc |-> "closed", t |-> TableObject,
                    ll_stats |-> CHOOSE st \in MetaStats : st.num_rows = 0,
                    file |-> doc, written |-> NoWritten,
                    op |-> "none", res |-> "ok"]

\* Table.close() of the table open for writing: __update_stats, then
\* finalise_build writes the document, then the finally clauses.
MetaClose ==
    /\ meta.pc = "open_w"
    /\ LET t1 == [meta.t EXCEPT !.total_row_size = meta.ll_stats.total_row_size,
                                !.num_rows = meta.ll_stats.num_rows,
                                !.min_row_size = meta.ll_stats.min_row_size,
                                !.max_row_size = meta.ll_stats.max_row_size]
       IN meta' = [meta EXCEPT !.pc = "closed",
                               !.file = write_metadata(get_metadata_tree(t1)),
                               !.written = [set |-> TRUE, columns |-> t1.columns,
                                            stats |-> meta.ll_stats],
                               !.t = close_finally_tree(t1),
                               !.op = "close", !.res = "ok"]
    /\ UNCHANGED <<disk, T, pc, last, I, gen, adm, procs, dir, web>>

\* open("r") on a new Table object.
MetaOpenRead ==
    /\ meta.pc = "closed"
    /\ LET r == open_read_tree(TableObject, meta.file)
       IN meta' = [meta EXCEPT !.pc = IF r.res = "ok" THEN "open_r" ELSE "failed",
                               !.t = r.t, !.op = "open_r", !.res = r.res]
    /\ UNCHANGED <<disk, T, pc, last, I, gen, adm, procs, dir, web>>

\* close() of the table open for reading, or the Table object of a failed
\* open given up.
MetaCloseRead ==
    /\ meta.pc \in {"open_r", "failed"}
    /\ meta' = [meta EXCEPT !.pc = "closed",
                            !.t = IF meta.pc = "open_r" THEN close_finally_tree(meta.t)
                                  ELSE TableObject,
                            !.op = "close", !.res = "ok"]
    /\ UNCHANGED <<disk, T, pc, last, I, gen, adm, procs, dir, web>>

MetaNext == MetaClose \/ MetaOpenRead \/ MetaCloseRead

\* A table's metadata written at close and read at open.
SpecMeta == InitMeta /\ [][MetaNext]_vars

\* The line that ShowRunner.run prints for the column at position j - 1:
\* the values handed to str.format, numbers as their decimal texts.
show_line(col, j) ==
    [position |-> FormatNat(j - 1),
     name |-> decode(col.name),
     type |-> get_type_name(col),
     size |-> FormatNat(col.element_size),
     n |-> IF col.num_elements > 0 THEN FormatNat(col.num_elements)
           ELSE <<"var(1)">>,
     description |-> decode(col.description)]

\* wtadmin show HOMEDIR on the document in the home directory, from init to
\* cleanup: a new Table object is opened for reading, one line is printed
\* for each column, and the table is closed.
MetaShow ==
    /\ meta.pc = "closed"
    /\ meta.file # NoDoc
    /\ LET r == open_read_tree(TableObject, meta.file)
       IN last' = Result("wtadmin_show", r.res, <<>>, 0,
                         IF r.res = "ok"
                         THEN [j \in 1..Len(r.t.columns) |-> show_line(r.t.columns[j], j)]
                         ELSE <<>>)
    /\ UNCHANGED <<disk, T, pc, I, gen, adm>>
    /\ UNCHANGED aux

ShowNext == MetaClose \/ MetaOpenRead \/ MetaCloseRead \/ MetaShow

\* A table's metadata written at close, read at open and shown by wtadmin.
SpecShow == InitMeta /\ [][ShowNext]_vars

(************************* defining the schema *****************************)
\* _wormtable.Table(db_file, data_file, ll_cols, cache_size) on a list of
\* low-level columns: the constructor takes a list that starts with the
\* primary key column, one unsigned integer of at least four bytes.
LLTableInitOk(ll_cols) ==
    /\ Len(ll_cols) >= 1
    /\ decode(ll_cols[1].name) = <<PRIMARY_KEY_NAME>>
    /\ ll_cols[1].element_type = "WT_UINT"
    /\ ll_cols[1].num_elements = 1
    /\ ll_cols[1].element_size >= 4

\* At most this many columns in a schema.
MaxCols == 2

\* Table.add_column: refused on an open table; the column is appended.
add_column(t, col) ==
    IF t.ll THEN [res |-> "ValueError", t |-> t]
    ELSE [res |-> "ok", t |-> [t EXCEPT !.columns = Append(@, col)]]

\* Table.add_id_column(size)
add_id_column(t, size) ==
    add_column(t, LLColumn(encode(<<PRIMARY_KEY_NAME>>), encode(<<"k">>),
                           "WT_UINT", size, 1))

\* Table.read_schema: the root must be a schema of the supported version
\* and address size; its columns are parsed and appended.
read_schema(t, tree) ==
    IF tree.tag # "schema" THEN [res |-> "ValueError", t |-> t]
    ELSE IF ~tree.has_version THEN [res |-> "ValueError", t |-> t]
    ELSE IF tree.version \notin {TABLE_METADATA_VERSION}
    THEN [res |-> "ValueError", t |-> t]
    ELSE IF tree.schema.address_size # <<"2">> THEN [res |-> "ValueError", t |-> t]
    ELSE parse_schema_tree(t, tree.schema.columns)

\* Database.open("w") if the low-level table were made without a look at
\* its columns.
open_write_tree_Unchecked(t) ==
    [res |-> "ok", t |-> [t EXCEPT !.ll = TRUE, !.open_mode = WT_WRITE]]

\* Database.open("w") on a Table object: the low-level table is made from
\* the columns of the object and opened.
open_write_tree(t) ==
    LET t0 == [t EXCEPT !.open_mode = NoMode, !.ll = FALSE]
    IN IF LLTableInitOk(t0.columns)
       THEN [res |-> "ok", t |-> [t0 EXCEPT !.ll = TRUE, !.open_mode = WT_WRITE]]
       ELSE [res |-> "error", t |-> t0]

\* The sizes given to add_id_column and the columns given to add_column.
IdSizes == {2, 4, 5}
AddedColumns ==
    {LLColumn(encode(<<"a">>), encode(<<"d">>), "WT_INT", 1, 1),
     LLColumn(encode(<<PRIMARY_KEY_NAME>>), encode(<<"d">>), "WT_CHAR", 1, WT_VAR_1)}

\* The schema files read: written by write_schema from columns as above.
SchemaFiles ==
    {[tag |-> tag, has_version |-> TRUE, version |-> TABLE_METADATA_VERSION,
      schema |-> [address_size |-> <<"2">>,
                  columns |-> [j \in 1..Len(cols) |-> get_xml(cols[j])]],
      stats |-> <<>>] :
        tag \in {"schema", "table"},
        cols \in {<<RowIdColumn>>, <<RowIdColumn, CHOOSE c \in AddedColumns : TRUE>>}
                    \cup {<<c>> : c \in AddedColumns}}

\* t.add_id_column(size)
SchemaAddIdColumn(size) ==
    /\ meta.pc \in {"new", "closed", "open_w"}
    /\ Len(meta.t.columns) < MaxCols
    /\ LET r == add_id_column(meta.t, size)
       IN meta' = [meta EXCEPT !.t = r.t, !.op = "add_column", !.res = r.res]
    /\ UNCHANGED <<disk, T, pc, last, I, gen, adm, procs, dir, web>>

\* t.add_column(...)
SchemaAddColumn(col) ==
    /\ meta.pc \in {"new", "closed", "open_w"}
    /\ Len(meta.t.columns) < MaxCols
    /\ LET r == add_column(meta.t, col)
       IN meta' = [meta EXCEPT !.t = r.t, !.op = "add_column", !.res = r.res]
    /\ UNCHANGED <<disk, T, pc, last, I, gen, adm, procs, dir, web>>

\* t.read_schema(filename)
SchemaReadSchema(file) ==
    /\ meta.pc \in {"new", "closed", "open_w"}
    /\ Len(meta.t.columns) + Len(file.schema.columns) <= MaxCols
    /\ LET r == read_schema(meta.t, ElementTree_parse(write_metadata(file)))
       IN meta' = [meta EXCEPT !.t = r.t, !.op = "read_schema", !.res = r.res]
    /\ UNCHANGED <<disk, T, pc, last, I, gen, adm, procs, dir, web>>

\* t.open("w") on a Table object that is not open.
SchemaOpenWrite ==
    /\ meta.pc \in {"new", "closed"}
    /\ LET r == open_write_tree(meta.t)
       IN meta' = [meta EXCEPT !.t = r.t, !.op = "open_w", !.res = r.res,
                               !.pc = IF r.res = "ok" THEN "open_w" ELSE @]
    /\ UNCHANGED <<disk, T, pc, last, I, gen, adm, procs, dir, web>>

\* A new Table object on an empty home directory.
InitSchema ==
    /\ disk = [p \in Paths |-> NoFile]
    /\ T = NewTable
    /\ pc = "idle"
    /\ last = NoResult
    /\ I = NewIndex
    /\ gen = FALSE
    /\ adm = NoRun
    /\ procs = NoProcs
    /\ dir = NoDir
    /\ web = NoWeb
    /\ meta = [pc |-> "new", t |-> TableObject,
               ll_stats |-> CHOOSE st \in MetaStats : st.num_rows = 0,
               file |-> NoDoc, written |-> NoWritten, op |-> "none", res |-> "ok"]

SchemaNext ==
    \/ \E size \in IdSizes : SchemaAddIdColumn(size)
    \/ \E col \in AddedColumns : SchemaAddColumn(col)
    \/ \E file \in SchemaFiles : SchemaReadSchema(file)
    \/ SchemaOpenWrite
    \/ MetaClose

\* Tables made through add_column, read_schema, open("w") and close().
SpecSchema == InitSchema /\ [][SchemaNext]_vars

(*************************** wtadmin rm ************************************)
\* os.unlink(path)
Unlink(d, path) == [d EXCEPT ![path] = NoFile]

\* IndexProgramRunner.__init__ and init for wtadmin rm HOMEDIR NAME: the
\* table is opened for reading, an index that does not exist is an error,
\* and the index is opened for reading.
AdmRmInit(nm) ==
    /\ Idle
    /\ T = NewTable
    /\ ~I.ll
    /\ LET r == table_open_read(disk)
           i0 == [NewIndex EXCEPT !.name = nm]
           o == index_open(i0, r.t, disk, WT_READ)
       IN IF ~exists(disk, DB_NAME)
          THEN /\ adm' = [pc |-> "rm_cleanup", err |-> "table_not_found"]
               /\ I' = NewIndex
               /\ UNCHANGED T
          ELSE IF r.res # "ok"
          THEN /\ adm' = [pc |-> "rm_cleanup", err |-> "open_error"]
               /\ T' = r.t
               /\ I' = NewIndex
          ELSE IF ~exists(disk, index_db_name(nm))
          THEN /\ adm' = [pc |-> "rm_cleanup", err |-> "index_not_found"]
               /\ T' = r.t
               /\ I' = i0
          ELSE /\ adm' = [pc |-> IF o.res = "ok" THEN "rm_run" ELSE "rm_cleanup",
                          err |-> IF o.res = "ok" THEN "" ELSE "open_error"]
               /\ T' = r.t
               /\ I' = o.i
    /\ last' = Result("wtadmin_rm", "running", <<>>, 0, <<>>)
    /\ UNCHANGED <<disk, pc, gen>>
    /\ UNCHANGED aux

\* DeleteRunner.run up to the first os.unlink of Database.delete: the index
\* is closed, verify_closed passes, and the db file is removed.
AdmRmUnlinkDb ==
    /\ adm.pc = "rm_run"
    /\ I' = index_close(I, disk).i
    /\ disk' = Unlink(disk, get_db_path(index_db_name(I.name)))
    /\ adm' = [pc |-> "rm_unlink_xml", err |-> ""]
    /\ UNCHANGED <<T, pc, last, gen>>
    /\ UNCHANGED aux

\* The second os.unlink of Database.delete: the metadata file is removed, or
\* the call raises and the file stays.
AdmRmUnlinkXml ==
    /\ adm.pc = "rm_unlink_xml"
    /\ \/ /\ disk' = Unlink(disk, get_metadata_path(index_db_name(I.name)))
          /\ adm' = [pc |-> "rm_cleanup", err |-> ""]
       \/ /\ adm' = [pc |-> "rm_cleanup", err |-> "OSError"]
          /\ UNCHANGED disk
    /\ UNCHANGED <<T, pc, last, I, gen>>
    /\ UNCHANGED aux

\* IndexProgramRunner.cleanup, from the finally clause of wtadmin_main.
AdmRmCleanup ==
    /\ adm.pc = "rm_cleanup"
    /\ I' = IF is_open(I) THEN index_close(I, disk).i ELSE I
    /\ T' = IF is_open(T) THEN close_finally(T) ELSE T
    /\ adm' = NoRun
    /\ last' = Result("wtadmin_rm", IF adm.err = "" THEN "ok" ELSE adm.err,
                      <<>>, 0, <<>>)
    /\ UNCHANGED <<disk, pc, gen>>
    /\ UNCHANGED aux

\* wtadmin add and wtadmin rm over a closed table.
RmNext ==
    \/ \E nm \in IndexNames, colspec \in ColSpecs, force \in BOOLEAN :
            AdmAddInit(nm, colspec, force)
    \/ AdmAddRun
    \/ AdmAddCleanup
    \/ \E nm \in IndexNames : AdmRmInit(nm)
    \/ AdmRmUnlinkDb
    \/ AdmRmUnlinkXml
    \/ AdmRmCleanup

SpecRm == InitIndexRead /\ [][RmNext]_vars


(******************** opening and closing in any state *********************)
\* The mode strings given to open: 'r', 'w' and one that is neither.
OpenModes == {"r", "w", "x"}

\* modes = {'r': WT_READ, 'w': WT_WRITE}
modes(mode) == IF mode = "r" THEN WT_READ ELSE WT_WRITE

\* The start of open if only the low-level object were forgotten.
open_reset_ModeKept(t) == [t EXCEPT !.ll = FALSE]

\* Database.open: self.__open_mode = None; self.__ll_object = None.
open_reset(t) == [t EXCEPT !.open_mode = NoMode, !.ll = FALSE]

\* Database.open(mode) on a Table object in any state: how it ends, the
\* object and the disk afterwards.  A mode that is neither 'r' nor 'w' raises
\* before anything is touched.  For 'r' the metadata is read into the
\* object, whatever columns it holds, before the low-level table is made.
table_open(t, d, mode) ==
    IF mode \notin {"r", "w"} THEN [res |-> "ValueError", t |-> t, d |-> d]
    ELSE LET t0 == open_reset(t)
             xml == d[get_metadata_path(DB_NAME)]
             t1 == set_metadata(t0, xml)
         IN IF modes(mode) = WT_WRITE
            THEN IF LLTableCreateOk(t0.columns)
                 THEN [res |-> "ok",
                       t |-> [t0 EXCEPT !.ll = TRUE, !.open_mode = WT_WRITE,
                                        !.build = TRUE,
                                        !.row = LLClearRow(t0.columns)],
                       d |-> LLTableOpenWrite(d, ll_db_file(TRUE), ll_data_file(TRUE))]
                 ELSE [res |-> "error", t |-> t0, d |-> d]
            ELSE IF ~xml.exists
                 THEN [res |-> "IOError", t |-> t0, d |-> d]
                 ELSE IF /\ LLTableCreateOk(t1.columns)
                         /\ LLTableOpenReadOk(d, ll_db_file(FALSE), ll_data_file(FALSE))
                      THEN [res |-> "ok",
                            t |-> [t1 EXCEPT !.ll = TRUE, !.open_mode = WT_READ,
                                             !.build = FALSE, !.row = <<>>],
                            d |-> d]
                      ELSE [res |-> "error", t |-> t1, d |-> d]

\* Index.open(mode) on an Index object in any state: the table must be open
\* for reading, then Database.open.
index_open_any(i, t, d, mode) ==
    IF ~verify_open_mode(t, WT_READ) \/ mode \notin {"r", "w"}
    THEN [res |-> "ValueError", i |-> i, d |-> d]
    ELSE index_open(i, t, d, modes(mode))

\* The key columns of the index built here.
OpenKeyColumns == <<DataColOrder[1]>>

\* At most this many columns in a Table object and key columns in an Index
\* object: the lists of the metadata twice over.
MaxColsHeld == NumCols + NumCols
MaxKeysHeld == Len(OpenKeyColumns) + Len(OpenKeyColumns)

\* t.open(mode)
TableOpen(mode) ==
    /\ Idle
    /\ Len(T.columns) + Len(disk[get_metadata_path(DB_NAME)].columns) <= MaxColsHeld
    /\ LET r == table_open(T, disk, mode)
       IN /\ T' = r.t
          /\ disk' = r.d
          /\ last' = Result("open", r.res, <<mode>>, 0, <<>>)
    /\ UNCHANGED pc
    /\ UNCHANGED others

\* The files that delete removes, in the order of the unlink calls:
\* Database.delete and then Table.delete.
table_delete_files == <<get_db_path(DB_NAME), get_metadata_path(DB_NAME), get_data_path>>
index_delete_files(name) ==
    <<get_db_path(index_db_name(name)), get_metadata_path(index_db_name(name))>>

\* The disk after the first k unlink calls.
RECURSIVE UnlinkAll(_, _, _)
UnlinkAll(d, files, k) ==
    IF k = 0 THEN d ELSE Unlink(UnlinkAll(d, files, k - 1), files[k])

\* delete() on a closed database: k unlink calls succeed, on files that
\* exist; the next one, if there is one, raises OSError.
Delete(is_opened, files) ==
    IF is_opened
    THEN /\ last' = Result("delete", "ValueError", <<>>, 0, <<>>)
         /\ UNCHANGED disk
    ELSE \E k \in 0..Len(files) :
            /\ \A j \in 1..k : disk[files[j]].exists
            /\ disk' = UnlinkAll(disk, files, k)
            /\ last' = Result("delete", IF k = Len(files) THEN "ok" ELSE "OSError",
                              <<>>, k, <<>>)

\* t.delete()
TableDelete ==
    /\ Idle
    /\ Delete(is_open(T), table_delete_files)
    /\ UNCHANGED <<T, pc>>
    /\ UNCHANGED others

\* i = Index(t, name): the program holds one Index object at a time.
IndexNew(nm) ==
    /\ Idle
    /\ ~is_open(I)
    /\ I' = [NewIndex EXCEPT !.name = nm]
    /\ last' = Result("Index", "ok", <<>>, 0, <<>>)
    /\ UNCHANGED <<disk, T, pc, gen, adm>>
    /\ UNCHANGED aux

\* i.add_key_column(t.get_column(name)): get_column raises KeyError for a
\* name that the table object does not hold.
IndexAddKeyColumn(name) ==
    /\ Idle
    /\ I.name # ""
    /\ Len(I.key_columns) < MaxKeysHeld
    /\ IF get_column_ok(T, name)
       THEN /\ I' = [I EXCEPT !.key_columns = Append(@, name),
                              !.bin_widths = Append(@, 0)]
            /\ last' = Result("add_key_column", "ok", <<>>, 0, <<>>)
       ELSE /\ last' = Result("add_key_column", "KeyError", <<>>, 0, <<>>)
            /\ UNCHANGED I
    /\ UNCHANGED <<disk, T, pc, gen, adm>>
    /\ UNCHANGED aux

\* i.open(mode)
IndexOpen(mode) ==
    /\ Idle
    /\ I.name # ""
    /\ Len(I.key_columns)
         + Len(disk[get_metadata_path(index_db_name(I.name))].columns) <= MaxKeysHeld
    /\ LET r == index_open_any(I, T, disk, mode)
       IN /\ I' = r.i
          /\ disk' = r.d
          /\ last' = Result("index_open", r.res, <<mode>>, 0, <<>>)
    /\ UNCHANGED <<T, pc, gen, adm>>
    /\ UNCHANGED aux

\* i.build() on an index open for writing, over a table that was opened for
\* reading once and is still open; on an Index object that is not open,
\* get_ll_object gives None and llo.build raises AttributeError.
IndexBuild ==
    /\ Idle
    /\ I.name # ""
    /\ IF ~is_open(I)
       THEN /\ last' = Result("build", "AttributeError", <<>>, 0, <<>>)
            /\ UNCHANGED disk
       ELSE /\ get_open_mode(I) = WT_WRITE
            /\ verify_open_mode(T, WT_READ)
            /\ T.columns = disk[get_metadata_path(DB_NAME)].columns
            /\ disk' = LLIndexBuild(disk, index_ll_file(I.name, TRUE),
                                    ll_data_file(T.build), index_col_pos(I, T),
                                    I.bin_widths, LLNumRows(disk, ll_db_file(T.build)))
            /\ last' = Result("build", "ok", <<>>, 0, <<>>)
    /\ UNCHANGED <<T, pc, I, gen, adm>>
    /\ UNCHANGED aux

\* i.delete()
IndexDelete ==
    /\ Idle
    /\ I.name # ""
    /\ Delete(is_open(I), index_delete_files(I.name))
    /\ UNCHANGED <<T, pc, I, gen, adm>>
    /\ UNCHANGED aux

\* The homes opened: an empty one, and a closed table without rows.
InitOpen ==
    /\ \/ disk = [p \in Paths |-> NoFile]
       \/ disk = StoredTable(<<>>)
    /\ T = NewTable
    /\ pc = "idle"
    /\ last = NoResult
    /\ I = NewIndex
    /\ gen = FALSE
    /\ adm = NoRun
    /\ meta = NoMeta
    /\ procs = NoProcs
    /\ dir = NoDir
    /\ web = NoWeb

\* The row appended: a value in each column.
OpenRows == {<<None>> \o [k \in 1..Len(DataColOrder) |-> 1]}

\* t.append(row) by a program that appends one row to a home that holds
\* none.  (The count of rows that the Table object keeps is not reset by
\* open, only by close.)
OpenAppend(row) ==
    /\ T.num_rows = 0
    /\ RowsHeld = 0
    /\ AppendRow(row)

\* Programs that open, append to, build, close and delete a Table object and
\* an Index object in any order.
OpenNext ==
    \/ \E mode \in OpenModes : TableOpen(mode)
    \/ \E row \in OpenRows : OpenAppend(row)
    \/ CloseBegin
    \/ FinaliseMoveDb
    \/ FinaliseWriteMetadata
    \/ FinaliseMoveData
    \/ TableDelete
    \/ \E nm \in IndexNames : IndexNew(nm)
    \/ \E k \in 1..Len(OpenKeyColumns) : IndexAddKeyColumn(OpenKeyColumns[k])
    \/ \E mode \in OpenModes : IndexOpen(mode)
    \/ IndexBuild
    \/ IndexClose
    \/ IndexDelete

SpecOpen == InitOpen /\ [][OpenNext]_vars

(************************ the filter requests ******************************)
\* A request carries no PrevFile.
NoPrevFile == <<>>

\* str.find(sub): the zero-based position of the first occurrence, or -1.
py_find(text, sub) ==
    LET at == {k \in 1..(Len(text) - Len(sub) + 1) :
                    SubSeq(text, k, k + Len(sub) - 1) = sub}
    IN IF at = {} THEN 0 - 1
       ELSE (CHOOSE k \in at : \A m \in at : k <= m) - 1

\* text[a:b] with a and b from find: a negative number counts from the end.
py_slice(text, a, b) ==
    LET from == IF a < 0 THEN (IF Len(text) + a < 0 THEN 0 ELSE Len(text) + a) ELSE a
        to == IF b < 0 THEN (IF Len(text) + b < 0 THEN 0 ELSE Len(text) + b) ELSE b
    IN SubSeq(text, from + 1, to)

TsvText == <<".", "t", "s", "v">>

\* prevFile[prevFile.find('0'):prevFile.find('.tsv')], the text given to int.
prev_count_text(prevFile) ==
    py_slice(prevFile, py_find(prevFile, <<"0">>), py_find(prevFile, TsvText))

\* The name of the output file for a count: out001.tsv, out010.tsv,
\* out100.tsv.
out_file_name(outcount) ==
    IF outcount < 10
    THEN <<"o", "u", "t", "0", "0">> \o FormatNat(outcount) \o TsvText
    ELSE IF outcount < 100
    THEN <<"o", "u", "t", "0">> \o FormatNat(outcount) \o TsvText
    ELSE <<"o", "u", "t">> \o FormatNat(outcount) \o TsvText

\* The rows of the table that is filtered, by their row ids.
FilterRows == 0..(MaxRows - 1)

\* The longest chain of filter requests.
MaxChain == 8

\* The files of the working directory: a name and the row ids of the lines
\* after the header line.
HasFile(files, name) == \E f \in files : f.name = name
FileIds(files, name) == (CHOOSE f \in files : f.name = name).ids

\* helpers.get_linecount(path) - 1, and -1 when the file cannot be read.
numresults_of(files, name) ==
    IF HasFile(files, name) THEN (1 + Cardinality(FileIds(files, name))) - 1
    ELSE 0 - 1

\* script03_api_call(curDir, outFile, ..., joinedPrevFile) for a filter that
\* keeps the rows in keep: how it ends and the files afterwards.  An output
\* file that exists ends the process (sys.exit); a previous file that cannot
\* be opened raises IOError; otherwise the rows kept, among those of the
\* previous file if there is one, are written under a header line.
script03_api_call(files, outFile, keep, prevFile) ==
    IF HasFile(files, outFile)
    THEN [res |-> "SystemExit", files |-> files]
    ELSE IF prevFile # NoPrevFile /\ ~HasFile(files, prevFile)
    THEN [res |-> "IOError", files |-> files]
    ELSE LET ids == IF prevFile # NoPrevFile
                    THEN FileIds(files, prevFile) \cap keep
                    ELSE keep
         IN [res |-> "ok", files |-> files \cup {[name |-> outFile, ids |-> ids]}]

\* One request to filter.py that carries the prevfile of the last response
\* as PrevFile (the first one carries none), for a filter that keeps the
\* rows in keep.  The response is printed at the end; a request whose API
\* call raises or exits gets none.
FilterRequest(keep) ==
    /\ web.pc \in {"none", "responded"}
    /\ LET prevFile == IF web.pc = "none" THEN NoPrevFile ELSE web.prevfile
           text == prev_count_text(prevFile)
           outcount == IF prevFile # NoPrevFile THEN ParseNat(text) + 1 ELSE 1
           outFile == out_file_name(outcount)
           files == IF web.pc = "none" THEN {} ELSE web.files
           r == script03_api_call(files, outFile, keep, prevFile)
           numresults == numresults_of(r.files, outFile)
       IN /\ prevFile # NoPrevFile => IsDecimal(text)
          /\ outcount <= MaxChain
          /\ IF r.res # "ok"
             THEN web' = [pc |-> "failed", err |-> r.res, files |-> r.files]
             ELSE web' = [pc |-> "responded", prevfile |-> outFile,
                          numresults |-> numresults,
                          files |-> IF numresults <= 0
                                    THEN {f \in r.files : f.name # outFile}
                                    ELSE r.files]
    /\ UNCHANGED <<disk, T, pc, last, I, gen, adm, meta, procs, dir>>

\* The session is over: the working directory is removed and a new one made.
FilterNewSession ==
    /\ web.pc \in {"failed", "responded"}
    /\ web' = NoWeb
    /\ UNCHANGED <<disk, T, pc, last, I, gen, adm, meta, procs, dir>>

FilterNext ==
    \/ \E keep \in SUBSET FilterRows : FilterRequest(keep)
    \/ FilterNewSession

SpecFilter == Init /\ [][FilterNext]_vars

(********************* listing the indexes by name *************************)
\* File names and index names as texts: sequences of characters.
DbPrefixText == <<"i", "n", "d", "e", "x", "_">>
DbSuffixText == <<".", "d", "b">>
BuildPrefixText == <<"_", "b", "u", "i", "l", "d", "_", "1", "_">>
HomeDirText == <<"h">>

\* os.path.join(homedir, name)
path_join(homedir, name) == homedir \o <<"/">> \o name

StartsWith(text, p) == Len(text) >= Len(p) /\ SubSeq(text, 1, Len(p)) = p
EndsWith(text, p) ==
    Len(text) >= Len(p) /\ SubSeq(text, Len(text) - Len(p) + 1, Len(text)) = p

\* str.replace(old, ""): every occurrence of old, found from the left and
\* not overlapping, is taken out.
RECURSIVE str_replace(_, _)
str_replace(text, old) ==
    IF Len(text) < Len(old) \/ old = <<>> THEN text
    ELSE IF StartsWith(text, old)
         THEN str_replace(SubSeq(text, Len(old) + 1, Len(text)), old)
         ELSE <<Head(text)>> \o str_replace(Tail(text), old)

\* glob.glob(prefix + "*" + suffix): the paths of the files of the home
\* directory that start with the prefix and end with the suffix.
glob(files, prefix, suffix) ==
    {g \in {path_join(HomeDirText, f) : f \in files} :
        /\ Len(g) >= Len(prefix) + Len(suffix)
        /\ StartsWith(g, prefix)
        /\ EndsWith(g, suffix)}

\* The body of Table.indexes: for each path found, the name it yields.
indexes_yield(files) ==
    LET prefix == path_join(HomeDirText, DbPrefixText)
        suffix == DbSuffixText
    IN {<<g, str_replace(str_replace(g, prefix), suffix)>> :
            g \in glob(files, prefix, suffix)}

\* The file names of an index: its db file, its metadata file, and the db
\* file it is built in.
index_db_file(name) == DbPrefixText \o name \o DbSuffixText
index_xml_file(name) == DbPrefixText \o name \o <<".", "x", "m", "l">>
index_build_file(name) == BuildPrefixText \o DbPrefixText \o name \o DbSuffixText

\* The names given to indexes: up to MaxParts pieces, each a letter, a dot,
\* or the text of the prefix or of the suffix.
MaxParts == 2
NamePieces == {<<"x">>, <<".">>, DbPrefixText, DbSuffixText}
RECURSIVE NamesOf(_)
NamesOf(n) ==
    IF n = 0 THEN {<<>>}
    ELSE {a \o b : a \in NamesOf(n - 1), b \in NamePieces}
IndexNameTexts == UNION {NamesOf(n) : n \in 1..MaxParts}

\* At most this many indexes in the home directory.
MaxIndexes == 2
IndexesIn(files) ==
    {nm \in IndexNameTexts :
        index_db_file(nm) \in files \/ index_build_file(nm) \in files}

\* Index.open("w") under the name nm: the build file appears.
DirOpenIndexWrite(nm) ==
    /\ Idle
    /\ verify_open_mode(T, WT_READ)
    /\ Cardinality(IndexesIn(dir) \cup {nm}) <= MaxIndexes
    /\ dir' = dir \cup {index_build_file(nm)}
    /\ UNCHANGED <<disk, T, pc, last, I, gen, adm, meta, procs, web>>

\* Index.close() of an index open for writing: the build file is moved to
\* the db file and the metadata file is written.
DirCloseIndex(nm) ==
    /\ Idle
    /\ index_build_file(nm) \in dir
    /\ dir' = (dir \ {index_build_file(nm)})
                \cup {index_db_file(nm), index_xml_file(nm)}
    /\ UNCHANGED <<disk, T, pc, last, I, gen, adm, meta, procs, web>>

\* list(t.indexes()) in a home directory given by its file names.
DirIndexes ==
    /\ Idle
    /\ IF ~verify_open_mode(T, WT_READ)
       THEN last' = Result("indexes_list", "ValueError", <<>>, 0, <<>>)
       ELSE last' = Result("indexes_list", "ok", <<>>, 0, indexes_yield(dir))
    /\ UNCHANGED <<disk, T, pc, I, gen, adm>>
    /\ UNCHANGED aux

\* The file names of the table.
TableFileTexts ==
    {<<"t", "a", "b", "l", "e">> \o DbSuffixText,
     <<"t", "a", "b", "l", "e", ".", "d", "a", "t">>,
     <<"t", "a", "b", "l", "e", ".", "x", "m", "l">>}

\* A home directory with an empty table and no index.
InitDir ==
    /\ disk = StoredTable(<<>>)
    /\ T = NewTable
    /\ pc = "idle"
    /\ last = NoResult
    /\ I = NewIndex
    /\ gen = FALSE
    /\ adm = NoRun
    /\ meta = NoMeta
    /\ procs = NoProcs
    /\ dir = TableFileTexts
    /\ web = NoWeb

DirNext ==
    \/ OpenRead
    \/ CloseBegin
    \/ \E nm \in IndexNameTexts : DirOpenIndexWrite(nm)
    \/ \E nm \in IndexNameTexts : DirCloseIndex(nm)
    \/ DirIndexes

SpecDir == InitDir /\ [][DirNext]_vars

(******************* wtadmin show, ls, hist and dump ***********************)
\* ProgramRunner.init and IndexProgramRunner.init as a function of the home
\* directory: how they end, and the Table and Index objects they leave.
runner_init(d, index) ==
    LET r == table_open_read(d)
        i0 == [NewIndex EXCEPT !.name = index]
        o == index_open(i0, r.t, d, WT_READ)
    IN IF ~exists(d, DB_NAME) THEN [res |-> "table_not_found", t |-> NewTable, i |-> NewIndex]
       ELSE IF r.res # "ok" THEN [res |-> r.res, t |-> r.t, i |-> NewIndex]
       ELSE IF index = "" THEN [res |-> "ok", t |-> r.t, i |-> NewIndex]
       ELSE IF ~exists(d, index_db_name(index))
       THEN [res |-> "index_not_found", t |-> r.t, i |-> i0]
       ELSE [res |-> o.res, t |-> r.t, i |-> o.i]

\* wtadmin show HOMEDIR, from init to cleanup.
AdmShow ==
    /\ Idle
    /\ T = NewTable
    /\ ~I.ll
    /\ last' = Result("wtadmin_show", runner_init(disk, "").res, <<>>, 0, <<>>)
    /\ UNCHANGED <<disk, T, pc, I, gen, adm>>
    /\ UNCHANGED aux

\* ListRunner.run: every index of the table is opened and closed in turn.
ls_run(d, t) ==
    LET bad == {nm \in indexes_names(d) :
                    index_open([NewIndex EXCEPT !.name = nm], t, d, WT_READ).res # "ok"}
    IN IF bad = {} THEN "ok"
       ELSE index_open([NewIndex EXCEPT !.name = CHOOSE nm \in bad : TRUE],
                       t, d, WT_READ).res

\* wtadmin ls HOMEDIR, from init to cleanup.
AdmLs ==
    /\ Idle
    /\ T = NewTable
    /\ ~I.ll
    /\ LET r == runner_init(disk, "")
       IN last' = Result("wtadmin_ls",
                         IF r.res = "ok" THEN ls_run(disk, r.t) ELSE r.res,
                         <<>>, 0, <<>>)
    /\ UNCHANGED <<disk, T, pc, I, gen, adm>>
    /\ UNCHANGED aux

\* wtadmin hist HOMEDIR NAME, from init to cleanup.
AdmHist(nm) ==
    /\ Idle
    /\ T = NewTable
    /\ ~I.ll
    /\ last' = Result("wtadmin_hist", runner_init(disk, nm).res, <<>>, 0, <<>>)
    /\ UNCHANGED <<disk, T, pc, I, gen, adm>>
    /\ UNCHANGED aux

\* int(text) raises ValueError unless the text is a decimal number.
int_ok(text) == IsDecimal(text)

\* DumpRunner.__init__ and DumpRunner.init: how they end.  The index is
\* looked up in __init__, before the table; init opens the table and the
\* index, parses the start key and looks up the column.  "" stands for an
\* option that is not given, <<>> for a start key that is not given.
dump_init(d, index, start, col) ==
    LET r == runner_init(d, index)
        numeric == IF index = "" THEN TRUE
                   ELSE /\ r.i.key_columns # <<>>
                        /\ r.i.key_columns[1] # DataColOrder[2]
    IN IF index # "" /\ ~exists(d, index_db_name(index)) THEN "index_not_found"
       ELSE IF r.res # "ok" THEN r.res
       ELSE IF start # <<>> /\ numeric /\ ~int_ok(start) THEN "ValueError"
       ELSE IF col # "" /\ ~get_column_ok(r.t, col) THEN "KeyError"
       ELSE "ok"

\* wtadmin dump HOMEDIR [COLUMN] [--index NAME] [--start KEY], from
\* __init__ to cleanup.
AdmDump(index, start, col) ==
    /\ Idle
    /\ T = NewTable
    /\ ~I.ll
    /\ last' = Result("wtadmin_dump", dump_init(disk, index, start, col),
                      <<>>, 0, <<>>)
    /\ UNCHANGED <<disk, T, pc, I, gen, adm>>
    /\ UNCHANGED aux

\* The ways a run ends through ProgramRunner.error.
ErrorCalls == {"table_not_found", "index_not_found", "index_exists"}

\* ProgramRunner.error(s): print("Error:", s) writes one line to the standard
\* output, and sys.exit(1) ends the process.
runner_error(s) ==
    [stdout |-> <<"Error: " \o s>>, stderr |-> <<>>, status |-> 1]

\* An exception that nothing catches: the interpreter writes the traceback,
\* whose last line names the exception, to the standard error and ends the
\* process with status 1.
uncaught(exc) ==
    [stdout |-> <<>>,
     stderr |-> <<"Traceback (most recent call last):", exc>>,
     status |-> 1]

\* What a run of wtadmin that ended as res shows of its ending: the error
\* lines on the two streams and the exit status.
process_end(res) ==
    IF res = "ok" THEN [stdout |-> <<>>, stderr |-> <<>>, status |-> 0]
    ELSE IF res \in ErrorCalls THEN runner_error(res)
    ELSE uncaught(res)

\* A column name that no table has.
NoSuchColumn == "zz"

\* The arguments of wtadmin add and wtadmin dump.
AdmColSpecs == ColSpecs \cup {<<ColSpecItem(NoSuchColumn, FALSE, <<>>)>>}
DumpStarts == {<<>>, <<"1">>, <<"q">>}
DumpColumns == {"", DataColOrder[1], NoSuchColumn}

\* Home directories with and without a table.
InitAdm ==
    /\ \/ disk = [p \in Paths |-> NoFile]
       \/ \E bodies \in IdxTables : disk = StoredTable(bodies)
    /\ T = NewTable
    /\ pc = "idle"
    /\ last = NoResult
    /\ I = NewIndex
    /\ gen = FALSE
    /\ adm = NoRun
    /\ meta = NoMeta
    /\ procs = NoProcs
    /\ dir = NoDir
    /\ web = NoWeb

\* Runs of wtadmin, one after the other.
AdmNext ==
    \/ \E nm \in IndexNames, colspec \in AdmColSpecs, force \in BOOLEAN :
            AdmAddInit(nm, colspec, force)
    \/ AdmAddRun
    \/ AdmAddCleanup
    \/ \E nm \in IndexNames : AdmRmInit(nm)
    \/ AdmRmUnlinkDb
    \/ AdmRmUnlinkXml
    \/ AdmRmCleanup
    \/ AdmShow
    \/ AdmLs
    \/ \E nm \in IndexNames : AdmHist(nm)
    \/ \E index \in IndexNames \cup {""}, start \in DumpStarts, col \in DumpColumns :
            AdmDump(index, start, col)

SpecAdm == InitAdm /\ [][AdmNext]_vars

(********************** vcf2wt and gtf2wt **********************************)
\* A line of the source file that the reader cannot split into its fields.
Malformed == <<>>

\* What the reader makes of a line: a row with one value per column and the
\* id column left to the table, or an exception for a malformed line.
SourceLines ==
    {r \in EncodedInputRows : Len(r) = NumCols} \cup {Malformed}

\* The source files.
Sources == UNION {[1..n -> SourceLines] : n \in 0..MaxRows}

\* A run of a converter: where it is, how it has gone, and its source file.
Conv(p, err, src) == [pc |-> p, err |-> err, src |-> src]

\* The rows appended so far by the converter under way.
RowsWritten == Len(disk[get_data_build_path].rows)

\* os.path.exists(DEST)
dest_exists(d) == \E q \in Paths : d[q].exists

\* shutil.rmtree(DEST) followed by os.mkdir(DEST)
fresh_dest(d) == [q \in Paths |-> NoFile]

\* The schema of the converters: the id column and the data columns.
define_schema == [NewTable EXCEPT !.columns = <<PRIMARY_KEY_NAME>> \o DataColOrder]

\* Table.open("w") on a Table object that is not open.
table_open_write(t) ==
    [t EXCEPT !.ll = TRUE, !.open_mode = WT_WRITE, !.build = TRUE,
              !.row = LLClearRow(t.columns)]

\* One turn of the loop over reader.rows(): the reader parses the next line
\* and append_encoded stores the row.
conv_append(t, d, line) ==
    LET r == insert_all(t, line, 0)
    IN IF line = Malformed THEN [ok |-> FALSE, t |-> t, d |-> d]
       ELSE IF r.ok /\ LLCommitOk(r.t)
       THEN [ok |-> TRUE,
             t |-> [r.t EXCEPT !.row = LLClearRow(r.t.columns), !.num_rows = @ + 1],
             d |-> LLCommitRow(d, ll_db_file(r.t.build), ll_data_file(r.t.build),
                               r.t.row)]
       ELSE [ok |-> FALSE, t |-> r.t, d |-> d]

\* gtf2wt_main up to the loop of write_table: an existing destination ends
\* the run unless --force removes it; then the table is made, its schema
\* defined, and it is opened for writing.
GtfStart(src, force) ==
    /\ Idle
    /\ IF dest_exists(disk) /\ ~force
       THEN /\ last' = Result("gtf2wt_main", "exists", <<>>, 0, <<>>)
            /\ UNCHANGED <<disk, T, adm>>
       ELSE /\ disk' = LLTableOpenWrite(fresh_dest(disk), ll_db_file(TRUE),
                                        ll_data_file(TRUE))
            /\ T' = table_open_write(define_schema)
            /\ adm' = Conv("gtf_rows", "", src)
            /\ last' = Result("gtf2wt_main", "running", <<>>, 0, <<>>)
    /\ UNCHANGED <<pc, I, gen>>
    /\ UNCHANGED aux

\* The loop of ProgramRunner.write_table in gtf2wt.  An exception of the
\* reader or of append_encoded leaves write_table, run and gtf2wt_main: none
\* of them has a handler.
GtfAppend ==
    /\ adm.pc = "gtf_rows"
    /\ RowsWritten < Len(adm.src)
    /\ LET a == conv_append(T, disk, adm.src[RowsWritten + 1])
       IN /\ T' = a.t
          /\ disk' = a.d
          /\ IF a.ok
             THEN UNCHANGED <<adm, last>>
             ELSE /\ adm' = NoRun
                  /\ last' = Result("gtf2wt_main", "error", adm.src, 0, <<>>)
    /\ UNCHANGED <<pc, I, gen>>
    /\ UNCHANGED aux

\* self.__table.close() at the end of write_table in gtf2wt, up to the close
\* of the low-level table.
GtfClose ==
    /\ adm.pc = "gtf_rows"
    /\ pc = "idle"
    /\ RowsWritten = Len(adm.src)
    /\ T' = update_stats(T, disk)
    /\ pc' = "move_db"
    /\ adm' = [adm EXCEPT !.pc = "gtf_closing"]
    /\ UNCHANGED <<disk, last, I, gen>>
    /\ UNCHANGED aux

\* gtf2wt_main returns.
GtfReturn ==
    /\ adm.pc = "gtf_closing"
    /\ pc = "idle"
    /\ adm' = NoRun
    /\ last' = Result("gtf2wt_main", "ok", adm.src, 0, <<>>)
    /\ UNCHANGED <<disk, T, pc, I, gen>>
    /\ UNCHANGED aux

\* vcf2wt_main up to the open("w") of create_table, with a schema read from
\* the header of the source.
VcfStart(src, force) ==
    /\ Idle
    /\ IF dest_exists(disk) /\ ~force
       THEN /\ last' = Result("vcf2wt_main", "exists", <<>>, 0, <<>>)
            /\ UNCHANGED <<disk, T, adm>>
       ELSE /\ disk' = LLTableOpenWrite(fresh_dest(disk), ll_db_file(TRUE),
                                        ll_data_file(TRUE))
            /\ T' = table_open_write(define_schema)
            /\ adm' = Conv("vcf_created", "", src)
            /\ last' = Result("vcf2wt_main", "running", <<>>, 0, <<>>)
    /\ UNCHANGED <<pc, I, gen>>
    /\ UNCHANGED aux

\* self.__table.close() at the end of create_table, up to the close of the
\* low-level table.
VcfCreateClose ==
    /\ adm.pc = "vcf_created"
    /\ pc = "idle"
    /\ T' = update_stats(T, disk)
    /\ pc' = "move_db"
    /\ adm' = [adm EXCEPT !.pc = "vcf_create_closing"]
    /\ UNCHANGED <<disk, last, I, gen>>
    /\ UNCHANGED aux

\* VCFWriter.__init__: read_metadata on the closed table and open("w").
VcfWriterInit ==
    /\ adm.pc = "vcf_create_closing"
    /\ pc = "idle"
    /\ LET t1 == set_metadata(T, disk[get_metadata_path(DB_NAME)])
       IN /\ T' = table_open_write(t1)
          /\ disk' = LLTableOpenWrite(disk, ll_db_file(TRUE), ll_data_file(TRUE))
    /\ adm' = [adm EXCEPT !.pc = "vcf_rows"]
    /\ UNCHANGED <<pc, last, I, gen>>
    /\ UNCHANGED aux

\* The loop of ProgramRunner.write_table in vcf2wt.  An exception of the
\* reader or of VCFWriter.append leaves run through the finally clause of
\* vcf2wt_main.
VcfAppend ==
    /\ adm.pc = "vcf_rows"
    /\ RowsWritten < Len(adm.src)
    /\ LET a == conv_append(T, disk, adm.src[RowsWritten + 1])
       IN /\ T' = a.t
          /\ disk' = a.d
          /\ adm' = IF a.ok THEN adm
                    ELSE [adm EXCEPT !.pc = "vcf_cleanup", !.err = "error"]
    /\ UNCHANGED <<pc, last, I, gen>>
    /\ UNCHANGED aux

\* After the loop: the reader is closed and self.__writer.close() closes the
\* table, here up to the close of the low-level table.
VcfWriterClose ==
    /\ adm.pc = "vcf_rows"
    /\ pc = "idle"
    /\ RowsWritten = Len(adm.src)
    /\ T' = update_stats(T, disk)
    /\ pc' = "move_db"
    /\ adm' = [adm EXCEPT !.pc = "vcf_closing"]
    /\ UNCHANGED <<disk, last, I, gen>>
    /\ UNCHANGED aux

\* ProgramRunner.cleanup of vcf2wt after an exception in the loop: the
\* writer is not None, so self.__writer.close() closes the table.
VcfCleanup ==
    /\ adm.pc = "vcf_cleanup"
    /\ pc = "idle"
    /\ T' = update_stats(T, disk)
    /\ pc' = "move_db"
    /\ adm' = [adm EXCEPT !.pc = "vcf_closing"]
    /\ UNCHANGED <<disk, last, I, gen>>
    /\ UNCHANGED aux

\* vcf2wt_main returns, or raises what the loop raised.
VcfReturn ==
    /\ adm.pc = "vcf_closing"
    /\ pc = "idle"
    /\ adm' = NoRun
    /\ last' = Result("vcf2wt_main", IF adm.err = "" THEN "ok" ELSE adm.err,
                      adm.src, 0, <<>>)
    /\ UNCHANGED <<disk, T, pc, I, gen>>
    /\ UNCHANGED aux

\* Runs of the two converters, one after the other.
ConvNext ==
    \/ \E src \in Sources, force \in BOOLEAN : GtfStart(src, force)
    \/ GtfAppend
    \/ GtfClose
    \/ GtfReturn
    \/ \E src \in Sources, force \in BOOLEAN : VcfStart(src, force)
    \/ VcfCreateClose
    \/ VcfWriterInit
    \/ VcfAppend
    \/ VcfWriterClose
    \/ VcfCleanup
    \/ VcfReturn
    \/ FinaliseMoveDb
    \/ FinaliseWriteMetadata
    \/ FinaliseMoveData

SpecConv == Init /\ [][ConvNext]_vars

(********************* builders side by side *******************************)
\* A process that runs wtadmin add -q NAME COLSPEC: its place in the
\* program, its arguments, and its Table and Index objects.
NewBuilder(pid, colspec) ==
    [pc |-> "init", name |-> BuilderName(pid), colspec |-> colspec,
     t |-> NewTable, i |-> NewIndex, err |-> ""]

\* AddRunner.init in the process pid: the table is opened for reading, an
\* existing index is refused, the colspec is parsed and the index is opened
\* for writing, which creates the build file.
builder_init(d, pid, b) ==
    LET r == table_open_read(d)
        cs == parse_colspec(b.colspec)
        i1 == [NewIndex EXCEPT
                !.name = b.name,
                !.key_columns = [k \in 1..Len(cs) |-> cs[k][1]],
                !.bin_widths = [k \in 1..Len(cs) |-> cs[k][2]]]
    IN IF ~exists(d, DB_NAME) \/ r.res # "ok"
       THEN [d |-> d, b |-> [b EXCEPT !.pc = "done", !.err = "open_error"]]
       ELSE IF exists(d, index_db_name(b.name))
       THEN [d |-> d, b |-> [b EXCEPT !.pc = "done", !.err = "index_exists"]]
       ELSE [d |-> LLIndexOpenWrite(d, get_db_build_path_in(pid, index_db_name(b.name))),
             b |-> [b EXCEPT !.pc = "run", !.t = r.t,
                             !.i = [i1 EXCEPT !.ll = TRUE, !.open_mode = WT_WRITE]]]

\* AddRunner.run with -q: the build, with a callback that does nothing.
builder_run(d, pid, b) ==
    [d |-> LLIndexBuild(d, get_db_build_path_in(pid, index_db_name(b.name)),
                        ll_data_file(FALSE), index_col_pos(b.i, b.t), b.i.bin_widths,
                        LLNumRows(d, ll_db_file(FALSE))),
     b |-> [b EXCEPT !.pc = "move"]]

\* AddRunner.cleanup, Index.close, finalise_build: shutil.move of the build
\* file.
builder_move(d, pid, b) ==
    [d |-> Move(d, get_db_build_path_in(pid, index_db_name(b.name)),
                get_db_path(index_db_name(b.name))),
     b |-> [b EXCEPT !.pc = "write_xml"]]

\* finalise_build: write_metadata; then the finally clauses, and the close
\* of the table.
builder_write_xml(d, pid, b) ==
    [d |-> [d EXCEPT ![get_metadata_path(index_db_name(b.name))] = index_get_metadata(b.i)],
     b |-> [b EXCEPT !.pc = "done", !.i = index_close_finally(b.i),
                     !.t = close_finally(b.t)]]

\* The step of the builder b in the process pid.
builder_step(d, pid, b) ==
    IF b.pc = "init" THEN builder_init(d, pid, b)
    ELSE IF b.pc = "run" THEN builder_run(d, pid, b)
    ELSE IF b.pc = "move" THEN builder_move(d, pid, b)
    ELSE builder_write_xml(d, pid, b)

BuilderInit(pid) ==
    /\ procs[pid].pc = "init"
    /\ disk' = builder_init(disk, pid, procs[pid]).d
    /\ procs' = [procs EXCEPT ![pid] = builder_init(disk, pid, procs[pid]).b]
    /\ UNCHANGED <<T, pc, last, I, gen, adm, meta, dir, web>>

BuilderRun(pid) ==
    /\ procs[pid].pc = "run"
    /\ disk' = builder_run(disk, pid, procs[pid]).d
    /\ procs' = [procs EXCEPT ![pid] = builder_run(disk, pid, procs[pid]).b]
    /\ UNCHANGED <<T, pc, last, I, gen, adm, meta, dir, web>>

BuilderMove(pid) ==
    /\ procs[pid].pc = "move"
    /\ disk' = builder_move(disk, pid, procs[pid]).d
    /\ procs' = [procs EXCEPT ![pid] = builder_move(disk, pid, procs[pid]).b]
    /\ UNCHANGED <<T, pc, last, I, gen, adm, meta, dir, web>>

BuilderWriteXml(pid) ==
    /\ procs[pid].pc = "write_xml"
    /\ disk' = builder_write_xml(disk, pid, procs[pid]).d
    /\ procs' = [procs EXCEPT ![pid] = builder_write_xml(disk, pid, procs[pid]).b]
    /\ UNCHANGED <<T, pc, last, I, gen, adm, meta, dir, web>>

\* The column specifications that the builders are given.
BuilderColSpecs ==
    {<<ColSpecItem(PRIMARY_KEY_NAME, FALSE, <<>>)>>,
     <<ColSpecItem(DataColOrder[1], TRUE, BinWidthText)>>,
     <<ColSpecItem(DataColOrder[2], FALSE, <<>>), ColSpecItem(DataColOrder[1], FALSE, <<>>)>>}

\* A closed table, and the builders about to start.
InitBuild ==
    /\ \E bodies \in IdxTables : disk = StoredTable(bodies)
    /\ T = NewTable
    /\ pc = "idle"
    /\ last = NoResult
    /\ I = NewIndex
    /\ gen = FALSE
    /\ adm = NoRun
    /\ meta = NoMeta
    /\ dir = NoDir
    /\ web = NoWeb
    /\ \E cs \in [BuilderPids -> BuilderColSpecs] :
            procs = [pid \in BuilderPids |-> NewBuilder(pid, cs[pid])]

BuildNext ==
    \E pid \in BuilderPids :
        \/ BuilderInit(pid)
        \/ BuilderRun(pid)
        \/ BuilderMove(pid)
        \/ BuilderWriteXml(pid)

\* Processes that build distinct indexes over one table at the same time.
SpecBuild == InitBuild /\ [][BuildNext]_vars

\* The operations that write a table.
WriteNext ==
    \/ \E name \in DataColNames \cup {PRIMARY_KEY_NAME} : AddColumn(name)
    \/ OpenWrite
    \/ OpenRead
    \/ ReadMetadata
    \/ \E row \in InputRows : AppendRow(row)
    \/ \E row \in EncodedInputRows : AppendEncoded(row)
    \/ CloseBegin
    \/ FinaliseMoveDb
    \/ FinaliseWriteMetadata
    \/ FinaliseMoveData
    \/ TableLen
    \/ ReaderOpenTable

\* The operations on indexes, and wtadmin add.
IndexNext ==
    \/ OpenIndex
    \/ IndexClose
    \/ IndexesCall
    \/ IndexesNext
    \/ \E nm \in IndexNames, colspec \in ColSpecs, force \in BOOLEAN :
            AdmAddInit(nm, colspec, force)
    \/ AdmAddRun
    \/ AdmAddCleanup

\* The table written and read with get and cursor.
ReadNext == WriteNext \/ TableGet \/ TableCursor

SpecRead == Init /\ [][ReadNext]_vars

\* One program that writes tables with append, reads them, and builds and
\* opens their indexes.
Next ==
    \/ \E name \in DataColNames \cup {PRIMARY_KEY_NAME} : AddColumn(name)
    \/ OpenWrite
    \/ OpenRead
    \/ \E row \in InputRows : AppendRow(row)
    \/ CloseBegin
    \/ FinaliseMoveDb
    \/ FinaliseWriteMetadata
    \/ FinaliseMoveData
    \/ TableLen
    \/ TableGet
    \/ TableCursor
    \/ IndexNext

Spec == Init /\ [][Next]_vars

\* The table written, closed and read back.
SpecWrite == Init /\ [][WriteNext]_vars

(***************************** properties **********************************)
PermanentPaths == {get_metadata_path(DB_NAME), get_db_path(DB_NAME), get_data_path}

NoPermanentFile(d) == \A p \in PermanentPaths : ~d[p].exists

\* C1: when the build of wtadmin add has failed inside the progress callback
\* and cleanup has run, the permanent file index_<name>.db does not exist,
\* the build file of the index is gone, and the files of the table are as
\* they were.
C1_FailedBuildLeavesNoIndex ==
    [][(adm.pc = "cleanup" /\ adm.err = "build_error" /\ adm'.pc = "none")
        => /\ ~disk'[get_db_path(index_db_name(I.name))].exists
           /\ ~disk'[get_db_build_path(index_db_name(I.name))].exists
           /\ \A p \in TablePaths : disk'[p] = disk[p]]_vars

\* A failed build whose cleanup has run and whose index is on disk with
\* fewer entries than the table has rows.
C1_PartialIndexPublished ==
    /\ last.op = "wtadmin_add"
    /\ last.res = "build_error"
    /\ \E nm \in IndexNames :
          /\ exists(disk, index_db_name(nm))
          /\ disk[get_db_path(index_db_name(nm))].num_rows
                < disk[get_db_path(DB_NAME)].num_rows

\* C2: finalisation is rename-last: whenever table.xml is present, table.db
\* and table.dat are present at their permanent paths and hold the complete
\* data, that is, the rows that table.xml counts.
C2_RenameLast ==
    disk[get_metadata_path(DB_NAME)].exists
        => /\ disk[get_db_path(DB_NAME)].exists
           /\ disk[get_data_path].exists
           /\ disk[get_db_path(DB_NAME)].num_rows = disk[get_metadata_path(DB_NAME)].num_rows
           /\ Len(disk[get_data_path].rows) = disk[get_metadata_path(DB_NAME)].num_rows

\* table.xml is present while table.dat is still at its build path.
C2_MetadataBeforeData ==
    /\ pc = "move_dat"
    /\ disk[get_metadata_path(DB_NAME)].exists
    /\ ~disk[get_data_path].exists
    /\ Len(disk[get_data_build_path].rows) >= 1

\* C3: from open('w') on a home directory with no permanent file until
\* close() is called, every step (the open itself, the appends, the calls
\* that fail, a reader's open_table) leaves the directory without permanent
\* file, and an open_table made then ends with the not-found error.
C3_NoPermanentFileUntilClose ==
    [][(NoPermanentFile(disk) /\ T'.open_mode = WT_WRITE /\ pc' = "idle")
        => /\ NoPermanentFile(disk')
           /\ (last'.op = "open_table" => last'.res = "IOError")]_vars

\* A table under construction that holds a row, in a directory without
\* permanent file, that a reader has just failed to open.
C3_ReaderRefusedWhileWriting ==
    /\ T.open_mode = WT_WRITE
    /\ pc = "idle"
    /\ NoPermanentFile(disk)
    /\ Len(disk[get_data_build_path].rows) >= 1
    /\ last.op = "open_table"
    /\ last.res = "IOError"

ExpectedRow(row, ncols, n) ==
    [c \in 1..ncols |-> IF c = 1 THEN n
                        ELSE IF c <= Len(row) THEN row[c] ELSE None]

\* C5: an append_encoded that fails commits no row, leaves the row count as
\* it was and leaves nothing of its row behind: the successful append or
\* append_encoded that comes next stores exactly the row it was given, with
\* missing for every column it leaves absent.
C5_AppendStoresItsOwnRow ==
    [][/\ (last'.op = "append_encoded" /\ last'.res = "error")
            => (disk' = disk /\ T'.num_rows = T.num_rows)
       /\ (/\ last.op = "append_encoded" /\ last.res = "error"
           /\ last'.op \in {"append", "append_encoded"} /\ last'.res = "ok")
            => LET rows == disk'[ll_data_file(T.build)].rows
               IN rows[Len(rows)]
                    = ExpectedRow(last'.arg, Len(T.columns), Len(rows) - 1)
      ]_vars

\* A row stored with a value that the append which stored it did not give.
C5_LeftoverValueStored ==
    /\ last.op = "append"
    /\ last.res = "ok"
    /\ last.arg = <<>>
    /\ \E c \in 2..Len(T.columns) :
          LET rows == disk[ll_data_file(T.build)].rows
          IN rows[Len(rows)][c] # None

\* What a call that is refused leaves: the error, and the Table object,
\* the Index object and the files as they were.
Refused ==
    /\ last'.res = "ValueError"
    /\ T' = T
    /\ I' = I
    /\ disk' = disk

\* C6 as stated: every call of len, get, cursor, indexes, open_index or
\* close on a Table that is not open ends at once with an error and changes
\* nothing.
C6_CallOnClosedTableFails ==
    [][(Idle /\ ~is_open(T)
        /\ last'.op \in {"len", "get", "cursor", "indexes", "open_index", "close"})
        => Refused]_vars

\* C6 as amended: len, get, cursor, open_index and close on a Table that is
\* not open, and get, cursor and open_index on a Table open for writing, end
\* at once with an error and change nothing; indexes is a generator, whose
\* call returns without error and changes nothing, and whose enumeration
\* ends with that error at its first step, before any name, when the Table
\* is then not open or open for writing.
C6_ClosedTableRefusesReads ==
    [][/\ (Idle /\ ~is_open(T)
           /\ last'.op \in {"len", "get", "cursor", "indexes_next", "open_index", "close"})
            => Refused
       /\ (Idle /\ T.open_mode = WT_WRITE
           /\ last'.op \in {"get", "cursor", "indexes_next", "open_index"})
            => Refused
       /\ (Idle /\ last'.op = "indexes")
            => (last'.res = "ok" /\ T' = T /\ I' = I /\ disk' = disk)
      ]_vars

\* The enumeration of indexes refused on a Table that was closed after its
\* table was written.
C6_EnumerationRefused ==
    /\ ~is_open(T)
    /\ exists(disk, DB_NAME)
    /\ last.op = "indexes_next"
    /\ last.res = "ValueError"

\* C7: append and append_encoded on a Table that is open for reading or not
\* open end with an error and leave the Table object (its row buffer and its
\* row count) and the files as they were.
C7_AppendRefusedOutsideWriteMode ==
    [][(Idle /\ last'.op \in {"append", "append_encoded"}
        /\ ~(is_open(T) /\ T.open_mode = WT_WRITE))
        => (last'.res = "error" /\ T' = T /\ disk' = disk)]_vars

\* An append_encoded refused by a Table open for reading that holds a row.
C7_AppendRefusedInReadMode ==
    /\ T.open_mode = WT_READ
    /\ is_open(T)
    /\ Len(disk[get_data_path].rows) >= 1
    /\ last.op = "append_encoded"
    /\ last.res = "error"

\* C8: once close() has returned, the table in the home directory can be
\* opened for reading, and len() of the reopened table is the number of rows
\* appended, which is the num_rows that the metadata holds.
C8_LenAfterReopen ==
    /\ (pc = "idle" /\ disk[get_metadata_path(DB_NAME)].exists)
        => /\ exists(disk, DB_NAME)
           /\ disk[get_data_path].exists
           /\ disk[get_metadata_path(DB_NAME)].num_rows = Len(disk[get_data_path].rows)
           /\ disk[get_db_path(DB_NAME)].num_rows = Len(disk[get_data_path].rows)
    /\ (pc = "idle" /\ last.op \in {"open_r", "open_table"}
        /\ disk[get_metadata_path(DB_NAME)].exists)
        => last.res = "ok"
    /\ (last.op = "len" /\ last.res = "ok" /\ T.open_mode = WT_READ)
        => /\ last.n = Len(disk[get_data_path].rows)
           /\ last.n = disk[get_metadata_path(DB_NAME)].num_rows

\* len() of a reopened table that holds MaxRows rows.
C8_LenOfReopenedTable ==
    /\ T.open_mode = WT_READ
    /\ last.op = "len"
    /\ last.res = "ok"
    /\ last.n = MaxRows
    /\ Len(disk[get_data_path].rows) = MaxRows

\* C9: get(i) on a Table open for reading with n rows returns row i for
\* 0 <= i < n and row n+i for -n <= i < 0; for every other i it raises the
\* out-of-range error and asks the row store for nothing.
C9_GetWrapsOrRaises ==
    (last.op = "get" /\ last.arg # <<>>)
        => LET i == last.arg[1]
               rows == disk[get_data_path].rows
               n == Len(rows)
           IN IF 0 <= i /\ i < n
              THEN last.res = "ok" /\ last.out = <<rows[i + 1]>>
              ELSE IF (0 - n) <= i /\ i < 0
              THEN last.res = "ok" /\ last.out = <<rows[n + i + 1]>>
              ELSE last.res = "IndexError" /\ last.fetch = <<>>

\* get(i) with i < -n has asked the row store for a row with a negative id.
C9_NegativeRowFetched ==
    /\ last.op = "get"
    /\ last.arg # <<>>
    /\ last.arg[1] < 0 - Len(disk[get_data_path].rows)
    /\ last.fetch # <<>>
    /\ last.fetch[1] < 0

\* The position in the schema of the column that a caller names.
SchemaPos(t, id) ==
    IF id.kind = "int" THEN id.pos + 1
    ELSE CHOOSE k \in 1..Len(t.columns) : t.columns[k] = id.name

\* The rows with start <= row_id (and row_id < stop when a stop is given),
\* as stored, each cut down to the columns asked for.
RowsBetween(rows, start, stop) ==
    SelectSeq(rows, LAMBDA r : start <= r[1] /\ (stop = None \/ r[1] < stop))

Projected(t, rows, cols) ==
    [k \in 1..Len(rows) |-> [c \in 1..Len(cols) |-> rows[k][SchemaPos(t, cols[c])]]]

\* C10: a cursor over (columns, start, stop) yields the rows with
\* start <= row_id < stop, in the order of the data file (ascending row id,
\* the order of the appends), each once and each projected to the columns
\* asked for in the order asked; so nothing when stop = start, and every row
\* in append order for (all columns, 0, len).
C10_CursorYieldsRange ==
    (last.op = "cursor" /\ last.res = "ok")
        => /\ last.out = Projected(T, RowsBetween(disk[get_data_path].rows,
                                                  last.arg[1], last.arg[2]),
                                   last.cols)
           /\ \A k \in 1..Len(disk[get_data_path].rows) :
                 disk[get_data_path].rows[k][1] = k - 1
           /\ (last.arg[2] = last.arg[1]) => last.out = <<>>

\* A cursor from 0 to 0 over a table that holds rows, with two columns asked
\* for in an order that is not the schema's.
C10_EmptyRangeOverRows ==
    /\ last.op = "cursor"
    /\ last.res = "ok"
    /\ last.arg = <<0, 0>>
    /\ last.out = <<>>
    /\ Len(disk[get_data_path].rows) = MaxRows
    /\ last.cols = <<NameId("a"), IntId(0)>>


(********************* reading through an index ****************************)
\* The index that is open holds an entry for every row of the table.
IndexComplete ==
    disk[index_ll_file(I.name, FALSE)].num_rows = disk[get_db_path(DB_NAME)].num_rows

\* The key of a row of the table under the open index.
RowKey(row) == LLIndexKey(row, index_col_pos(I, T), I.bin_widths)

\* Whether the key k lies within the bounds given: a bound is compared with
\* as many components of the key as it has.
InBounds(k, start_given, start, stop_given, stop) ==
    /\ start_given => ~KeyLess(KeyPrefix(k, Len(start)), start)
    /\ stop_given => KeyLess(KeyPrefix(k, Len(stop)), stop)

\* start <= stop, on the components that both have.
BoundsOrdered(start, stop) ==
    LET m == IF Len(start) < Len(stop) THEN Len(start) ELSE Len(stop)
    IN ~KeyLess(KeyPrefix(stop, m), KeyPrefix(start, m))

\* The rows of the table whose key lies within the bounds, in the order of
\* the index, projected to the columns asked for.
RowsInBounds(start_given, start, stop_given, stop, columns) ==
    LET rows == disk[get_data_path].rows
        hit == {<<RowKey(rows[j]), rows[j][1]>> : j \in
                    {h \in 1..Len(rows) :
                        InBounds(RowKey(rows[h]), start_given, start, stop_given, stop)}}
        sorted == SortEntries(hit)
    IN [j \in 1..Len(sorted) |->
            [c \in 1..Len(columns) |->
                rows[sorted[j][2] + 1][translate_pos(T, columns[c]) + 1]]]

\* C11: for a complete index and bounds start <= stop, Index.cursor(cols,
\* start, stop) yields exactly the rows whose binned key k satisfies
\* start <= k < stop, a shorter bound compared as a prefix, and a bound that
\* is not given sets no limit.
C11_IndexCursorYieldsRange ==
    (/\ last.op = "index_cursor"
     /\ last.res = "ok"
     /\ IndexComplete
     /\ (last.arg[1] /\ last.arg[3] => BoundsOrdered(last.arg[2].v, last.arg[4].v)))
    => last.out = RowsInBounds(last.arg[1], last.arg[2].v, last.arg[3], last.arg[4].v,
                               last.cols)

\* A cursor with a lower bound over an index with two key columns left out
\* the rows below the bound.
C11_PrefixBoundApplied ==
    /\ last.op = "index_cursor"
    /\ last.res = "ok"
    /\ IndexComplete
    /\ Len(I.key_columns) = 2
    /\ last.arg[1]
    /\ Len(last.arg[2].v) = 1
    /\ Len(last.out) = 1
    /\ Len(disk[get_data_path].rows) = 2

\* C12: a key given as start is set as the minimum of the iterator and a key
\* given as stop as its maximum, whatever the key; only a bound that is not
\* given sets nothing.
C12_GivenBoundApplied ==
    (last.op = "index_cursor" /\ last.res = "ok")
    => /\ last.fetch[1] = last.arg[1]
       /\ last.fetch[2] = last.arg[3]

\* A cursor was given the string "KEY_UNSET" as start, over an index on the
\* column of strings.
C12_SentinelGivenAsKey ==
    /\ last.op = "index_cursor"
    /\ last.res = "ok"
    /\ last.arg[1]
    /\ last.arg[2] = PyVal(KEY_UNSET)
    /\ I.key_columns = <<DataColOrder[2]>>


\* C13: an index whose build entered every row of the table, whatever its
\* key columns, read with cursor(['row_id']) and both bounds unset, yields
\* every row id of the table exactly once.
C13_RowIdCursorYieldsEachRowOnce ==
    (/\ last.op = "index_cursor"
     /\ last.res = "ok"
     /\ ~last.arg[1]
     /\ ~last.arg[3]
     /\ last.cols = <<NameId(PRIMARY_KEY_NAME)>>
     /\ IndexComplete)
    => LET n == Len(disk[get_data_path].rows)
       IN /\ Len(last.out) = n
          /\ \A r \in 0..(n - 1) :
                Cardinality({j \in 1..Len(last.out) : last.out[j] = <<r>>}) = 1

\* The row ids of a table of two rows were read through an index on a data
\* column, the second row of the table first because its key is smaller.
C13_RowIdsReadThroughDataIndex ==
    /\ last.op = "index_cursor"
    /\ last.res = "ok"
    /\ ~last.arg[1]
    /\ ~last.arg[3]
    /\ last.cols = <<NameId(PRIMARY_KEY_NAME)>>
    /\ IndexComplete
    /\ I.key_columns = <<DataColOrder[2]>>
    /\ last.out = <<<<1>>, <<0>>>>


\* floor(v / b) * b for a number v >= 0 and an integer b > 0: the multiple
\* of b that is at most v and within b of it.
Bucket(v, b) == CHOOSE m \in 0..v : m % b = 0 /\ m <= v /\ v < m + b

\* The place of a column in the rows of the stored table.
StoredPos(name) ==
    CHOOSE p \in 1..Len(disk[get_metadata_path(DB_NAME)].columns) :
        disk[get_metadata_path(DB_NAME)].columns[p] = name

\* C14: after wtadmin add with a bin width b > 0 in brackets for an integer
\* key column has ended without error, every row with a value v in that
\* column has its entry in the index under the key component floor(v/b)*b;
\* and count(key) over such an index that holds every row is the number of
\* rows whose value lies in the bucket of the key.
C14_BinnedKeysAndCounts ==
    /\ (last.op = "wtadmin_add" /\ last.res = "ok")
        => LET rows == disk[get_data_path].rows
               entries == disk[index_ll_file(I.name, FALSE)].rows
           IN \A k \in 1..Len(last.arg), h \in 1..Len(rows) :
                LET v == rows[h][StoredPos(last.arg[k].name)]
                    b == ParseNat(last.arg[k].text)
                IN (last.arg[k].bracket /\ v # None)
                   => \E j \in 1..Len(entries) :
                        /\ entries[j][2] = rows[h][1]
                        /\ entries[j][1][k] = Bucket(v, b)
    /\ (/\ last.op = "index_count"
        /\ last.res = "ok"
        /\ IndexComplete
        /\ I.key_columns = <<DataColOrder[1]>>
        /\ I.bin_widths[1] > 0
        /\ last.arg[1].v[1] # None
        /\ last.arg[1].v[1] % I.bin_widths[1] = 0)
        => LET rows == disk[get_data_path].rows
               b == I.bin_widths[1]
               key == last.arg[1].v[1]
           IN last.n = Cardinality({h \in 1..Len(rows) :
                            /\ rows[h][2] # None
                            /\ key <= rows[h][2]
                            /\ rows[h][2] < key + b})

\* Two rows with different values of one bucket were counted under the key
\* of the bucket.
C14_TwoValuesInOneBucket ==
    /\ last.op = "index_count"
    /\ last.res = "ok"
    /\ IndexComplete
    /\ I.key_columns = <<DataColOrder[1]>>
    /\ I.bin_widths = <<ParseNat(BinWidthText)>>
    /\ last.arg[1] = PyVal(0)
    /\ last.n = 2
    /\ disk[get_data_path].rows[1][2] # disk[get_data_path].rows[2][2]


(*************************** elided values *********************************)
\* A row without its trailing None values.
RECURSIVE StripNone(_)
StripNone(row) ==
    IF row # <<>> /\ row[Len(row)] = None
    THEN StripNone(SubSeq(row, 1, Len(row) - 1))
    ELSE row

\* C15: in every state, for every row, the loop of append does the same
\* with the row as with the row without its trailing None values, and a
\* None at any position leaves the buffer of that column as it was; and an
\* append that succeeds commits the row that the append of the row without
\* its trailing None values commits.
C15_ElidedSameAsExplicitNone ==
    [][/\ \A r \in InputRows :
            LET x == insert_all(T, r, 0)
            IN /\ x = insert_all(T, StripNone(r), 0)
               /\ x.ok => \A j \in 1..Len(r) :
                            (r[j] = None /\ j <= Len(T.row)) => x.t.row[j] = T.row[j]
       /\ (last'.op = "append" /\ last'.res = "ok" /\ T'.num_rows = T.num_rows + 1)
            => disk' = LLCommitRow(disk, ll_db_file(T.build), ll_data_file(T.build),
                                   insert_all(T, StripNone(last'.arg), 0).t.row)
      ]_vars

\* A row with a None for a column beyond the last column of the table, and
\* one for a column of the table, was appended.
C15_ExplicitNoneAppended ==
    /\ last.op = "append"
    /\ last.res = "ok"
    /\ Len(last.arg) > Len(T.columns)
    /\ Len(T.columns) = 2
    /\ last.arg[Len(last.arg)] = None
    /\ last.arg[2] # None
    /\ disk[ll_data_file(T.build)].rows # <<>>


Spaced(text) ==
    [j \in 1..Len(text) |-> IF text[j] \in {"\n", "\t"} THEN " " ELSE text[j]]

Rejectable(tree) ==
    \/ tree.tag = "schema"
    \/ ~tree.has_version
    \/ tree.version # <<"0.3">>
    \/ \E j \in 1..Len(tree.stats) :
            tree.stats[j].name \notin {<<"num_rows">>, <<"min_row_size">>,
                                       <<"max_row_size">>, <<"total_row_size">>}

\* C17: open("r") on a document whose root tag is schema, whose version is
\* missing or not 0.3, or that holds a stat with an unknown name raises an
\* error and leaves the table not open.
C17_BadDocumentRejected ==
    (meta.pc # "none" /\ meta.op = "open_r" /\ Rejectable(ElementTree_parse(meta.file)))
    => /\ meta.res = "ValueError"
       /\ ~meta.t.ll
       /\ meta.t.open_mode = NoMode

\* A document of version 0.2 with the root tag table and known stats was
\* refused.
C17_OtherVersionRefused ==
    /\ meta.pc = "failed"
    /\ meta.op = "open_r"
    /\ meta.res = "ValueError"
    /\ meta.file.tag = "table"
    /\ meta.file.has_version
    /\ meta.file.version = <<"0.2">>
    /\ meta.file.stats[1].name = <<"num_rows">>


(********************** the Table and its Indexes **************************)
\* C18: an Index that is open has its Table open in read mode.
C18_OpenIndexHasTableOpenForReading ==
    is_open(I) => verify_open_mode(T, WT_READ)

\* Table.close() succeeded while the Index opened on the table was open.
C18_TableClosedUnderOpenIndex ==
    /\ last.op = "close"
    /\ last.res = "ok"
    /\ is_open(I)
    /\ I.open_mode = WT_READ
    /\ ~is_open(T)


(************************ builders side by side ****************************)
\* The files in the home directory when the builder pid has run alone, from
\* the table as it is.
RECURSIVE RunAlone(_, _, _)
RunAlone(d, pid, b) ==
    IF b.pc = "done" THEN d
    ELSE RunAlone(builder_step(d, pid, b).d, pid, builder_step(d, pid, b).b)

BuiltAlone(pid) ==
    RunAlone([q \in Paths |-> IF q \in TablePaths THEN disk[q] ELSE NoFile], pid,
             NewBuilder(pid, procs[pid].colspec))

\* C19: every step of a builder changes only the build file of its process
\* and the two permanent files of its index; and once a builder has closed,
\* the two permanent files of its index are there, hold an entry for every
\* row of the table, and are what the builder leaves when it runs alone.
C19_BuildersDoNotInterfere ==
    [][/\ \A q \in Paths :
            disk'[q] # disk[q]
            => \E pid \in BuilderPids : procs'[pid] # procs[pid] /\ q \in BuilderPaths(pid)
       /\ \A pid \in BuilderPids :
            (procs'[pid].pc = "done" /\ procs'[pid].err = "")
            => LET db == get_db_path(index_db_name(BuilderName(pid)))
                   xml == get_metadata_path(index_db_name(BuilderName(pid)))
               IN /\ disk'[db].exists
                  /\ disk'[xml].exists
                  /\ Len(disk'[db].rows) = Len(disk'[get_data_path].rows)
                  /\ disk'[db] = BuiltAlone(pid)[db]
                  /\ disk'[xml] = BuiltAlone(pid)[xml]
      ]_vars

\* One builder has closed while the other, given another colspec, has moved
\* its build file and not yet written its document, over a table of two
\* rows.
C19_ClosedBesideUnfinished ==
    /\ procs # NoProcs
    /\ \E p1 \in BuilderPids, p2 \in BuilderPids :
            /\ procs[p1].pc = "done"
            /\ procs[p1].err = ""
            /\ procs[p2].pc = "write_xml"
            /\ procs[p1].colspec # procs[p2].colspec
            /\ Len(disk[get_db_path(index_db_name(BuilderName(p1)))].rows) = 2
            /\ Len(disk[get_db_path(index_db_name(BuilderName(p2)))].rows) = 2


(***************************** wtadmin rm **********************************)
\* C20: in every state during and after wtadmin rm the two files of every
\* index are both there or both gone, and no step of the command changes a
\* file of the table.
C20_RmRemovesPairAtOnce ==
    [][(adm.pc \in {"rm_run", "rm_unlink_xml", "rm_cleanup"} \/ last'.op = "wtadmin_rm")
        => /\ \A q \in TablePaths : disk'[q] = disk[q]
           /\ \A nm \in IndexNames :
                disk'[get_db_path(index_db_name(nm))].exists
                    = disk'[get_metadata_path(index_db_name(nm))].exists
      ]_vars

\* wtadmin rm has ended with the db file of the index removed and its
\* metadata file still there.
C20_MetadataFileLeftBehind ==
    /\ last.op = "wtadmin_rm"
    /\ last.res = "OSError"
    /\ adm = NoRun
    /\ \E nm \in IndexNames :
            /\ ~disk[get_db_path(index_db_name(nm))].exists
            /\ disk[get_metadata_path(index_db_name(nm))].exists


(************************ vcf2wt and gtf2wt ********************************)
\* C21: after a converter has returned or raised, the Table it opened is not
\* open and no Index is open.
C21_NothingOpenAfterMain ==
    (adm = NoRun /\ last.op \in {"gtf2wt_main", "vcf2wt_main"})
        => ~is_open(T) /\ ~is_open(I)

\* gtf2wt_main has raised out of its loop and the table is open for writing.
C21_TableOpenAfterGtfError ==
    /\ adm = NoRun
    /\ last.op = "gtf2wt_main"
    /\ last.res = "error"
    /\ is_open(T)
    /\ get_open_mode(T) = WT_WRITE

\* C29: after vcf2wt has failed in its loop and cleaned up, the destination
\* holds no openable table, or one with every row of the source.
C29_FailedRunPublishesNoPart ==
    (adm = NoRun /\ last.op = "vcf2wt_main" /\ last.res = "error")
        => \/ ~(exists(disk, DB_NAME) /\ disk[get_data_path].exists)
           \/ disk[get_db_path(DB_NAME)].num_rows = Len(last.arg)

\* vcf2wt has failed on its second line and the destination holds an
\* openable table with the first row alone.
C29_PartPublished ==
    /\ adm = NoRun
    /\ last.op = "vcf2wt_main"
    /\ last.res = "error"
    /\ Len(last.arg) = 2
    /\ exists(disk, DB_NAME)
    /\ disk[get_data_path].exists
    /\ disk[get_db_path(DB_NAME)].num_rows = 1
    /\ disk[get_metadata_path(DB_NAME)].num_rows = 1


(************************* the exit of wtadmin *****************************)
AdmOps ==
    {"wtadmin_show", "wtadmin_ls", "wtadmin_add", "wtadmin_rm", "wtadmin_hist",
     "wtadmin_dump"}

\* C22: a run of wtadmin that succeeded ends with status 0; a run that hit
\* an error ends with status 1 and one line on the standard error, which
\* starts with "Error:".
C22_ErrorLineAndStatus ==
    (adm = NoRun /\ last.op \in AdmOps)
        => LET e == process_end(last.res)
           IN IF last.res = "ok" THEN e.status = 0
              ELSE /\ e.status = 1
                   /\ e.stderr = <<"Error: " \o last.res>>

\* wtadmin add has ended on a column name the table does not have: the
\* standard error holds a traceback of more than one line.
C22_UnknownColumnTraceback ==
    /\ adm = NoRun
    /\ last.op = "wtadmin_add"
    /\ last.res = "KeyError"
    /\ Len(process_end(last.res).stderr) > 1
    /\ process_end(last.res).stdout = <<>>


(********************** listing the indexes by name ************************)
\* The names of the indexes whose db file is in the home directory.
Published == {nm \in IndexNameTexts : index_db_file(nm) \in dir}

\* C23: indexes() on a table open for reading yields the names N with a
\* file index_N.db in the home directory, each once and as it is, and
\* nothing else.
C23_IndexesYieldsTheNames ==
    (last.op = "indexes_list" /\ last.res = "ok")
        => LET ys == indexes_yield(dir)
           IN /\ \A nm \in Published : Cardinality({y \in ys : y[2] = nm}) = 1
              /\ \A y \in ys : y[2] \in Published

\* An index whose name ends in ".db" is in the home directory, and the
\* listing has yielded its name without that ending.
C23_SuffixInsideNameRemoved ==
    /\ last.op = "indexes_list"
    /\ last.res = "ok"
    /\ Published = {<<"x">> \o DbSuffixText}
    /\ last.out = indexes_yield(dir)
    /\ {y[2] : y \in last.out} = {<<"x">>}


(***************************** wtadmin show ********************************)
\* The arity of a column as a text: the count of a column with a fixed
\* number of elements, var(1) and var(2) for the two variable kinds.
ArityText(col) ==
    IF col.num_elements = WT_VAR_1 THEN <<"var(1)">>
    ELSE IF col.num_elements = WT_VAR_2 THEN <<"var(2)">>
    ELSE FormatNat(col.num_elements)

\* C24: wtadmin show prints one line per column of the metadata, in position
\* order, with the position, name, type, element size, arity and description
\* of the column; the arity is the count, var(1) or var(2).
C24_ShowPrintsTheColumns ==
    (last.op = "wtadmin_show" /\ last.res = "ok")
        => LET cols == open_read_tree(TableObject, meta.file).t.columns
           IN /\ Len(last.out) = Len(cols)
              /\ \A j \in 1..Len(cols) :
                    /\ last.out[j].position = FormatNat(j - 1)
                    /\ last.out[j].name = decode(cols[j].name)
                    /\ last.out[j].type = get_type_name(cols[j])
                    /\ last.out[j].size = FormatNat(cols[j].element_size)
                    /\ last.out[j].description = decode(cols[j].description)
                    /\ last.out[j].n = ArityText(cols[j])

\* wtadmin show has printed var(1) for a column that the metadata records
\* as var(2).
C24_Var2ShownAsVar1 ==
    /\ last.op = "wtadmin_show"
    /\ last.res = "ok"
    /\ Len(last.out) = 2
    /\ last.out[2].n = <<"var(1)">>
    /\ meta.file # NoDoc
    /\ open_read_tree(TableObject, meta.file).t.columns[2].num_elements = WT_VAR_2


(************************** the primary key ********************************)
\* The first column of the published metadata document.
PublishedFirst == parse_xml(ElementTree_parse(meta.file).schema.columns[1])

C26_ValueSameAsSingleton ==
    (last.op = "key_to_ll") => last.out[1] = last.out[2]

\* On an index with one key column the value came back as (v,) and the
\* singleton tuple as ((v,),).
C26_SingletonWrappedAgain ==
    /\ last.op = "key_to_ll"
    /\ Len(I.key_columns) = 1
    /\ last.out[1] = [res |-> "ok", key |-> <<PyVal(last.arg[1])>>]
    /\ last.out[2] = [res |-> "ok", key |-> <<PyTuple(<<last.arg[1]>>)>>]


(******************** opening and closing in any state *********************)
\* is_open() is true exactly when get_open_mode() is WT_READ or WT_WRITE.
OpenIffMode(db) == is_open(db) <=> get_open_mode(db) \in {WT_READ, WT_WRITE}

\* is_open() is false and get_open_mode() is None.
Closed(db) == ~is_open(db) /\ get_open_mode(db) = NoMode

\* close() returned, or raised on an open database: Table.close raises
\* ValueError only on a table that is not open, and Index.close resets the
\* object however it ends.
AfterClose ==
    /\ (last.op = "close" /\ last.res # "ValueError") => Closed(T)
    /\ (last.op = "index_close") => Closed(I)

DocKeyColumns(doc) == [k \in 1..Len(doc.columns) |-> doc.columns[k][1]]
DocBinWidths(doc) == [k \in 1..Len(doc.columns) |-> doc.columns[k][2]]

\* C28: after every successful open('r') of a Table, columns() is exactly
\* the column list of the metadata document, each column once, whatever the
\* object went through before; and after every successful Index.open('r')
\* key_columns() and bin_widths() are the lists of the index's document.
C28_ColumnsAreTheDocuments ==
    (pc = "idle" /\ last.res = "ok" /\ last.arg = <<"r">>) =>
        /\ (last.op = "open") =>
                T.columns = disk[get_metadata_path(DB_NAME)].columns
        /\ (last.op = "index_open") =>
                LET doc == disk[get_metadata_path(index_db_name(I.name))]
                IN /\ I.key_columns = DocKeyColumns(doc)
                   /\ I.bin_widths = DocBinWidths(doc)

\* A successful open('r') left the Table object with the columns of the
\* document twice over.
C28_ColumnsTwiceOver ==
    /\ pc = "idle"
    /\ last.op = "open"
    /\ last.res = "ok"
    /\ last.arg = <<"r">>
    /\ LET cols == disk[get_metadata_path(DB_NAME)].columns
       IN /\ cols # <<>>
          /\ T.columns = cols \o cols


(************************* the filter requests *****************************)
\* C30: after each response of filter.py in a chain of requests, the file
\* named in prevfile exists in the working directory, also when the filter
\* produced no result rows.
C30_PrevFileExists ==
    (web.pc = "responded") => HasFile(web.files, web.prevfile)

\* A response without result rows names a file that is not in the working
\* directory.
C30_PrevFileRemoved ==
    /\ web.pc = "responded"
    /\ web.numresults = 0
    /\ web.prevfile = out_file_name(2)
    /\ ~HasFile(web.files, web.prevfile)
    /\ HasFile(web.files, out_file_name(1))

====
